---- MODULE Spec2Model ----
(***************************************************************************)
(* RampForge backend: the assignment handlers of app/api/assignments.py    *)
(* (update_assignment with its optimistic-locking check, create_assignment *)
(* and delete_assignment) and update_ramp of app/api/ramps.py over the     *)
(* entity store, and the ConnectionManager of app/ws/manager.py with the   *)
(* websocket endpoint of app/api/websocket.py, its authentication and the  *)
(* control messages it handles.  RampForge TUI: the WebSocketClient of     *)
(* client_tui/app/services/websocket_client.py with its retry loop, its    *)
(* listener tasks and disconnect().                                        *)
(*                                                                         *)
(* Every request handler, every websocket endpoint and every listener is   *)
(* an asyncio task.  A task runs without interruption between two awaits,  *)
(* so one action of the model is the code between two suspension points    *)
(* of one task.                                                            *)
(*                                                                         *)
(* Abstractions: timestamps (created_at, updated_at, eta_in, eta_out) and  *)
(* the textual encoding of the audit snapshots are left out; a snapshot is *)
(* the record of the remaining columns.  Of the reference tables (ramps,   *)
(* loads, statuses, users) only ramps is written, by update_ramp.          *)
(***************************************************************************)
EXTENDS Integers, Sequences, FiniteSets, TLC

\* ---------------------------------------------------------------- bounds
NumRequests == 2          \* update requests issued in one behaviour
NumClients == 2           \* websocket connections opened in one behaviour
MaxSuppliedVersion == 2   \* largest version number a request may carry
MaxMessages == 2          \* control messages one connection sends in one behaviour
MaxRetries == 2           \* max_retries the TUI client is constructed with
MaxConnections == 2       \* connections the TUI client opens in one behaviour
MaxCalls == 3             \* connect() and disconnect() calls made on the TUI client

Requests == 1..NumRequests
Clients == 1..NumClients

\* ------------------------------------------------------- reference data
Unset == 0                \* a field left out of the request body
MissingId == 99999           \* an id with no row in its table
AssignmentId == 1         \* the contended assignment
InitialVersion == 1
SeedUser == 0             \* the principal that created the assignment

RampIds == {1, 2}
LoadIds == {1, 2}
StatusIds == {1, 2}

LoadDirectionOf(load_id) == IF load_id = 1 THEN "IB" ELSE "OB"

\* current_user.id of the principal behind request r
UserOf(r) == r

\* request bodies: AssignmentUpdate minus the version
UpdatePayloads ==
  { [ramp_id |-> Unset, load_id |-> Unset, status_id |-> Unset],
    [ramp_id |-> Unset, load_id |-> Unset, status_id |-> 2],
    [ramp_id |-> 2, load_id |-> 2, status_id |-> 2],
    [ramp_id |-> MissingId, load_id |-> Unset, status_id |-> Unset],
    [ramp_id |-> Unset, load_id |-> MissingId, status_id |-> Unset],
    [ramp_id |-> Unset, load_id |-> Unset, status_id |-> MissingId] }

NoRow == [version |-> 0, ramp_id |-> 0, load_id |-> 0, status_id |-> 0, updated_by |-> 0]
NoInput == [version |-> 0, ramp_id |-> 0, load_id |-> 0, status_id |-> 0]
NoAudit == [rid |-> 0, action |-> "none", entity_id |-> 0, before |-> NoRow, after |-> NoRow]

\* what a handler returns: 200 with the entity, 409 with ConflictError, 404 or 500
Response(status, detail, version, current_version, provided_version, data) ==
  [status |-> status, detail |-> detail, version |-> version,
   current_version |-> current_version, provided_version |-> provided_version,
   data |-> data]
NoResponse == Response(0, "", 0, 0, 0, NoRow)

\* ------------------------------------------------------------- filters
PyNone == "<None>"
EmptyFilter == [k \in {} |-> ""]
DirectionFilter(d) == [k \in {"direction"} |-> d]
OtherFilter == [k \in {"zone"} |-> "A"]
FilterValues == {EmptyFilter, DirectionFilter("IB"), DirectionFilter("OB"), OtherFilter}

\* dict.get(key) and Python truthiness of the result
Get(d, k) == IF k \in DOMAIN d THEN d[k] ELSE PyNone
Truthy(v) == v \notin {PyNone, ""}

\* ------------------------------------------------------------ messages
Message(type, rid, assignment_id, version, attempted_version, direction, filters) ==
  [type |-> type, rid |-> rid, assignment_id |-> assignment_id, version |-> version,
   attempted_version |-> attempted_version, direction |-> direction, filters |-> filters]
NoMessage == Message("none", 0, 0, 0, 0, PyNone, EmptyFilter)

\* WSAssignmentUpdate built by broadcast_assignment_update for action UPDATE
AssignmentUpdatedMessage(r, row) ==
  Message("assignment_updated", r, AssignmentId, row.version, 0,
          LoadDirectionOf(row.load_id), EmptyFilter)

\* WSConflictNotification built by broadcast_conflict
ConflictMessage(r, current_version, attempted_version, row) ==
  Message("conflict_detected", r, AssignmentId, current_version, attempted_version,
          LoadDirectionOf(row.load_id), EmptyFilter)

ConnectionAck == Message("connection_ack", 0, 0, 0, 0, PyNone, EmptyFilter)

\* ----------------------------------------------------- control messages
\* message_text as json.loads and WSSubscribeMessage see it: json says whether
\* the text parses and whether the parsed value is an object; type is the
\* value of its "type" key; fkind says whether its "filters" key is absent or
\* null, a dict, or a value of another type
ClientText(json, type, fkind, filters) ==
  [json |-> json, type |-> type, fkind |-> fkind, filters |-> filters]
NoText == ClientText("none", PyNone, "null", EmptyFilter)

SubscribeTexts ==
  {ClientText("object", "subscribe", "dict", f) : f \in FilterValues}
    \cup {ClientText("object", "subscribe", "null", EmptyFilter),
          ClientText("object", "subscribe", "string", EmptyFilter)}

MessageTexts ==
  SubscribeTexts
    \cup {ClientText("invalid", PyNone, "null", EmptyFilter),
          ClientText("array", PyNone, "null", EmptyFilter),
          ClientText("object", PyNone, "null", EmptyFilter),
          ClientText("object", "bogus", "null", EmptyFilter),
          ClientText("object", "ping", "null", EmptyFilter),
          ClientText("object", "unsubscribe", "null", EmptyFilter)}

\* the dict handle_client_message returns, or the exception that leaves it
Reply(type, message, filters) == [type |-> type, message |-> message, filters |-> filters]
NoReply == Reply("none", "", EmptyFilter)
ErrorReply(message) == Reply("error", message, EmptyFilter)
Raised(exception) == Reply("raised", exception, EmptyFilter)

\* the connection whose peer sends control messages
Talkers == {1}

\* a reply as the connection receives it
ReplyMessage(rep) == Message(rep.type, 0, 0, 0, 0, PyNone, rep.filters)

\* the commits made, and the requests already answered 409, when a request
\* reads its row
AtRead(commits, rejected) == [commits |-> commits, rejected |-> rejected]

\* --------------------------------------------------------------- state
VARIABLES
  assignments,         \* committed rows of the assignments table, by id
  audit_logs,          \* committed rows of the audit_logs table, in order
  store_writer,        \* request whose transaction holds the store's write lock, or 0
  pc,                  \* position of each request handler
  inp,                 \* request body of each request
  obj,                 \* the Assignment object in the request's session
  before,              \* before = assignment.dict()
  pending_audit,       \* AuditLog row added to the open transaction
  resp,                \* the response the handler returns
  lock_holder,         \* ConnectionManager._lock: task holding it
  lock_queue,          \* ConnectionManager._lock: waiting tasks, first in first out
  active_connections,  \* ConnectionManager.active_connections, in insertion order
  client_filters,      \* ConnectionManager.client_filters
  transport,           \* state of each connection's socket
  cpc,                 \* position of each websocket endpoint task
  inbox,               \* messages delivered to each connection, in order
  bc_msg,              \* message of the broadcast a request is running
  bc_idx,              \* clients already visited by that broadcast
  bc_disconnected,     \* disconnected_clients of that broadcast
  bc_cleanup,          \* clients still to be passed to disconnect()
  read_row,            \* history: the row a request loaded
  commit_order,        \* history: requests in the order their commits took effect
  stored_at_commit,    \* history: stored version a request's commit replaced
  bc_snapshot,         \* history: registry a broadcast started to iterate
  bc_visits,           \* history: what a broadcast did with each client
  bc_calls,            \* history: broadcast calls made by each request
  op,                  \* the handler a request runs: update, create or delete
  obj_id,           \* assignment.id of the object a create or delete works on
  at_read,             \* history: what had happened when a request read its row
  cur_msg,             \* message_text the endpoint of a connection is handling
  reply,               \* what handle_client_message returned for it
  handled,             \* messages received so far on each connection
  prev_msg,            \* history: the message handled before the current one
  token,               \* the token each connection presented in its query string
  running,             \* WebSocketClient.running
  retry_count,         \* WebSocketClient.retry_count
  reconnecting,        \* WebSocketClient.reconnecting
  websocket,           \* WebSocketClient.websocket: number of the connection, 0 for None
  task,                \* WebSocketClient._task: number of the listener task, 0 for None
  conn,                \* state of each connection the client opened
  lpc,                 \* position of the listener task of each connection
  upc,                 \* position of the caller of connect() and disconnect()
  rpc,                 \* position of each task inside _connect_with_retry
  closing,             \* the connection disconnect() is closing
  joined,              \* the task disconnect() is awaiting
  conn_status,         \* last status passed to on_connection_change
  calls,               \* history: calls made so far
  call_result,         \* history: how the caller's last connect() ended
  fails,               \* history: failed attempts of each task since the last success
  manual,              \* history: disconnect() was called and connect() not since
  disconnected,        \* history: that disconnect() has returned
  ramps                \* committed rows of the ramps table, by id

store_vars == <<assignments, audit_logs, store_writer>>
req_vars == <<pc, inp, obj, before, pending_audit, resp>>
lock_vars == <<lock_holder, lock_queue>>
reg_vars == <<active_connections, client_filters>>
ws_vars == <<transport, cpc>>
bc_vars == <<bc_msg, bc_idx, bc_disconnected, bc_cleanup>>
hist_vars == <<read_row, commit_order, stored_at_commit, bc_snapshot, bc_visits, bc_calls>>
life_vars == <<op, obj_id>>
msg_vars == <<cur_msg, reply, handled, prev_msg>>
conn_vars == <<token>>
tui_vars == <<running, retry_count, reconnecting, websocket, task, conn, lpc, upc, rpc,
              closing, joined, conn_status, calls, call_result, fails, manual, disconnected>>
ref_vars == <<ramps>>

vars == <<assignments, audit_logs, store_writer, pc, inp, obj, before, pending_audit,
          resp, lock_holder, lock_queue, active_connections, client_filters, transport,
          cpc, inbox, bc_msg, bc_idx, bc_disconnected,
          bc_cleanup, read_row, commit_order, stored_at_commit, bc_snapshot, bc_visits,
          bc_calls, op, obj_id, at_read, cur_msg, reply, handled, prev_msg, token,
          running, retry_count, reconnecting, ramps, websocket, task, conn, lpc, upc,
          rpc, closing, joined, conn_status, calls, call_result, fails, manual, disconnected>>

\* ------------------------------------------------------- asyncio.Lock
NoTask == <<"none", 0>>
ReqTask(r) == <<"req", r>>
WsTask(c) == <<"ws", c>>

\* a lock that is handed to every task that asks for it
LockArriveNoExclusion(L, t) == [holder |-> t, queue |-> L.queue]

\* `async with self._lock` reached by task t: taken at once when free, else queued
LockArrive(L, t) ==
  IF L.holder = NoTask /\ L.queue = <<>>
  THEN [holder |-> t, queue |-> L.queue]
  ELSE [holder |-> L.holder, queue |-> Append(L.queue, t)]

\* leaving the `async with` block: the first waiter is woken
LockRelease(L) ==
  IF L.queue = <<>>
  THEN [holder |-> NoTask, queue |-> <<>>]
  ELSE [holder |-> Head(L.queue), queue |-> Tail(L.queue)]

TheLock == [holder |-> lock_holder, queue |-> lock_queue]
SetLock(L) == lock_holder' = L.holder /\ lock_queue' = L.queue

\* ----------------------------------------------------------- helpers
\* requests that have been answered 409 Conflict
Rejected == {q \in Requests : pc[q] = "done" /\ resp[q].status = 409}

SeqToSet(s) == {s[i] : i \in 1..Len(s)}
RemoveFromSeq(s, x) == SelectSeq(s, LAMBDA y : y # x)
\* a pop that leaves the entry in place
DropKeyKeepsEntry(f, k) == f

\* dict.pop(k, None)
DropKey(f, k) == [x \in (DOMAIN f) \ {k} |-> f[x]]
\* an assignment that stores the value under every key
PutKeyEveryKey(f, k, v) == [x \in (DOMAIN f) \cup {k} |-> v]

\* d[k] = v
PutKey(f, k, v) == [x \in (DOMAIN f) \cup {k} |-> IF x = k THEN v ELSE f[x]]

\* The state common to every scenario: one stored assignment at its initial
\* version, no request received yet, the lock free.  A scenario fixes which
\* requests will be issued and which connections are registered.
InitCommon ==
  /\ assignments = [a \in {AssignmentId} |->
        [version |-> InitialVersion, ramp_id |-> 1, load_id |-> 1, status_id |-> 1,
         updated_by |-> SeedUser]]
  /\ audit_logs = <<>>
  /\ store_writer = 0
  /\ inp = [r \in Requests |-> NoInput]
  /\ obj = [r \in Requests |-> NoRow]
  /\ before = [r \in Requests |-> NoRow]
  /\ pending_audit = [r \in Requests |-> NoAudit]
  /\ resp = [r \in Requests |-> NoResponse]
  /\ lock_holder = NoTask
  /\ lock_queue = <<>>
  /\ bc_msg = [r \in Requests |-> NoMessage]
  /\ bc_idx = [r \in Requests |-> 0]
  /\ bc_disconnected = [r \in Requests |-> {}]
  /\ bc_cleanup = [r \in Requests |-> {}]
  /\ read_row = [r \in Requests |-> NoRow]
  /\ commit_order = <<>>
  /\ stored_at_commit = [r \in Requests |-> 0]
  /\ bc_snapshot = [r \in Requests |-> <<>>]
  /\ bc_visits = [r \in Requests |-> <<>>]
  /\ bc_calls = [r \in Requests |-> <<>>]
  /\ op = [r \in Requests |-> "none"]
  /\ obj_id = [r \in Requests |-> 0]
  /\ at_read = [r \in Requests |-> AtRead(0, {})]
  /\ cur_msg = [c \in Clients |-> NoText]
  /\ reply = [c \in Clients |-> NoReply]
  /\ handled = [c \in Clients |-> 0]
  /\ prev_msg = [c \in Clients |-> NoText]
  /\ running = FALSE
  /\ retry_count = 0
  /\ reconnecting = FALSE
  /\ websocket = 0
  /\ task = 0
  /\ conn = [n \in 1..MaxConnections |-> "unused"]
  /\ lpc = [n \in 1..MaxConnections |-> "unborn"]
  /\ upc = "idle"
  /\ rpc = [t \in 0..MaxConnections |-> "none"]
  /\ closing = 0
  /\ joined = 0
  /\ conn_status = "none"
  /\ calls = 0
  /\ call_result = "none"
  /\ fails = [t \in 0..MaxConnections |-> 0]
  /\ manual = FALSE
  /\ disconnected = FALSE
  /\ ramps = [id \in {1} |-> [version |-> InitialVersion, code |-> "R1",
                              description |-> "Inbound", direction |-> "IB"]]

\* connections 1..n are registered, acknowledged and in their receive loop
Registered(n) ==
  /\ active_connections = [i \in 1..n |-> i]
  /\ DOMAIN client_filters = 1..n
  /\ transport = [c \in Clients |-> IF c <= n THEN "open" ELSE "none"]
  /\ cpc = [c \in Clients |-> IF c <= n THEN "receive" ELSE "absent"]
  /\ inbox = [c \in Clients |-> IF c <= n THEN <<ConnectionAck>> ELSE <<>>]
  /\ token = [c \in Clients |-> IF c <= n THEN "valid" ELSE "unset"]

\* concurrent writers: every request is issued, one connection without filter
\* listens
Init ==
  /\ InitCommon
  /\ pc = [r \in Requests |-> "idle"]
  /\ client_filters = [c \in {1} |-> EmptyFilter]
  /\ Registered(1)

\* fan-out: one request is issued, every connection is registered with some
\* filter
InitFanout ==
  /\ InitCommon
  /\ pc = [r \in Requests |-> IF r = 1 THEN "idle" ELSE "unused"]
  /\ client_filters \in [Clients -> FilterValues]
  /\ Registered(NumClients)

\* ------------------------------------------------- update_assignment
\* a check that only rejects versions older than the stored one
VersionMismatchOlderOnly(stored, supplied) == stored > supplied

\* the optimistic locking check: assignment.version != assignment_in.version
VersionMismatch(stored, supplied) == stored # supplied

\* VersionMixin.increment_version
IncrementVersion(row) == [row EXCEPT !.version = row.version + 1]

\* update_data holds the fields the request set (exclude_unset, version excluded)
HasReferences(p) == p.ramp_id # Unset \/ p.load_id # Unset \/ p.status_id # Unset

\* the reference checks, in the order of the code; "" when every reference exists
ReferenceError(p) ==
  IF p.ramp_id # Unset /\ p.ramp_id \notin RampIds THEN "Ramp not found"
  ELSE IF p.load_id # Unset /\ p.load_id \notin LoadIds THEN "Load not found"
  ELSE IF p.status_id # Unset /\ p.status_id \notin StatusIds THEN "Status not found"
  ELSE ""

\* setattr for every field of update_data, updated_by, increment_version
ApplyUpdate(row, p, user) ==
  IncrementVersion(
    [row EXCEPT !.ramp_id = IF p.ramp_id # Unset THEN p.ramp_id ELSE @,
                !.load_id = IF p.load_id # Unset THEN p.load_id ELSE @,
                !.status_id = IF p.status_id # Unset THEN p.status_id ELSE @,
                !.updated_by = user])

\* the UPDATE statement of a flush sets the columns whose value the session
\* changed since it loaded the row; the other columns keep the stored value
FlushedRow(stored, loaded, current) ==
  [col \in DOMAIN stored |-> IF current[col] # loaded[col] THEN current[col] ELSE stored[col]]

\* lines 159-165 and 200-203: load the row, compare versions, take the snapshot.
\* The principals are interchangeable, so the requests are issued in the order
\* of their numbers.
ReadAssignment(r) ==
  /\ UNCHANGED <<obj_id, msg_vars, conn_vars, tui_vars, ref_vars>>
  /\ op' = [op EXCEPT ![r] = "update"]
  /\ at_read' = [at_read EXCEPT ![r] = AtRead(Len(commit_order), Rejected)]
  /\ pc[r] = "idle"
  /\ \A q \in Requests : q < r => pc[q] # "idle"
  /\ \E v \in 1..MaxSuppliedVersion, p \in UpdatePayloads :
       /\ inp' = [inp EXCEPT ![r] = [version |-> v, ramp_id |-> p.ramp_id,
                                      load_id |-> p.load_id, status_id |-> p.status_id]]
       /\ IF AssignmentId \notin DOMAIN assignments
          THEN /\ pc' = [pc EXCEPT ![r] = "done"]
               /\ resp' = [resp EXCEPT ![r] =
                             Response(404, "Assignment not found", 0, 0, 0, NoRow)]
               /\ UNCHANGED <<obj, before, read_row>>
          ELSE LET row == assignments[AssignmentId] IN
               /\ obj' = [obj EXCEPT ![r] = row]
               /\ read_row' = [read_row EXCEPT ![r] = row]
               /\ resp' = resp
               /\ IF VersionMismatch(row.version, v)
                  THEN /\ pc' = [pc EXCEPT ![r] = "conflict_fetch"]
                       /\ before' = before
                  ELSE /\ before' = [before EXCEPT ![r] = row]
                       /\ pc' = [pc EXCEPT ![r] =
                                   IF HasReferences(p) THEN "validate" ELSE "flush"]
  /\ UNCHANGED <<pending_audit, store_vars, lock_vars, reg_vars, ws_vars, inbox,
                 bc_vars, commit_order, stored_at_commit, bc_snapshot, bc_visits,
                 bc_calls>>

\* lines 205-220: the referenced ramp, load and status must exist
ValidateReferences(r) ==
  /\ UNCHANGED <<life_vars, at_read, msg_vars, conn_vars, tui_vars, ref_vars>>
  /\ pc[r] = "validate"
  /\ LET err == ReferenceError(inp[r]) IN
       IF err # ""
       THEN /\ pc' = [pc EXCEPT ![r] = "done"]
            /\ resp' = [resp EXCEPT ![r] = Response(404, err, 0, 0, 0, NoRow)]
       ELSE /\ pc' = [pc EXCEPT ![r] = "flush"]
            /\ resp' = resp
  /\ UNCHANGED <<inp, obj, before, pending_audit, store_vars, lock_vars, reg_vars,
                 ws_vars, inbox, bc_vars, hist_vars>>

\* lines 222-228: mutate the object, bump the version, flush; the UPDATE takes
\* the store's write lock, which the transaction keeps until commit or rollback
Flush(r) ==
  /\ UNCHANGED <<life_vars, at_read, msg_vars, conn_vars, tui_vars, ref_vars>>
  /\ pc[r] = "flush"
  /\ store_writer = 0
  /\ IF AssignmentId \in DOMAIN assignments
     THEN /\ store_writer' = r
          /\ obj' = [obj EXCEPT ![r] = ApplyUpdate(obj[r], inp[r], UserOf(r))]
          /\ pc' = [pc EXCEPT ![r] = "audit"]
          /\ resp' = resp
     ELSE \* the UPDATE matches no row: StaleDataError, rolled back by get_db
          /\ pc' = [pc EXCEPT ![r] = "done"]
          /\ resp' = [resp EXCEPT ![r] = Response(500, "StaleDataError", 0, 0, 0, NoRow)]
          /\ UNCHANGED <<store_writer, obj>>
  /\ UNCHANGED <<assignments, audit_logs, inp, before, pending_audit, lock_vars,
                 reg_vars, ws_vars, inbox, bc_vars, hist_vars>>

\* lines 230-239 and AuditService.log_action: the audit row joins the transaction
AuditRecord(r, action, entity_id, b, a) ==
  [rid |-> r, action |-> action, entity_id |-> entity_id, before |-> b, after |-> a]

LogAction(r) ==
  /\ UNCHANGED <<life_vars, at_read, msg_vars, conn_vars, tui_vars, ref_vars>>
  /\ pc[r] = "audit"
  /\ pending_audit' = [pending_audit EXCEPT ![r] =
                         AuditRecord(r, "UPDATE", AssignmentId, before[r], obj[r])]
  /\ pc' = [pc EXCEPT ![r] = "commit"]
  /\ UNCHANGED <<inp, obj, before, resp, store_vars, lock_vars, reg_vars, ws_vars,
                 inbox, bc_vars, hist_vars>>

\* line 241: the transaction becomes durable and visible, the write lock is freed
Commit(r) ==
  /\ UNCHANGED <<life_vars, at_read, msg_vars, conn_vars, tui_vars, ref_vars>>
  /\ pc[r] = "commit"
  /\ store_writer = r
  /\ assignments' = [assignments EXCEPT ![AssignmentId] =
                       FlushedRow(assignments[AssignmentId], before[r], obj[r])]
  /\ audit_logs' = Append(audit_logs, pending_audit[r])
  /\ store_writer' = 0
  /\ commit_order' = Append(commit_order, r)
  /\ stored_at_commit' = [stored_at_commit EXCEPT ![r] = assignments[AssignmentId].version]
  /\ pc' = [pc EXCEPT ![r] = "refetch"]
  /\ UNCHANGED <<inp, obj, before, pending_audit, resp, lock_vars, reg_vars, ws_vars,
                 inbox, bc_vars, read_row, bc_snapshot, bc_visits, bc_calls>>

\* a failure whose rollback leaves the pending audit row in the store
StoreFailureKeepsAudit(r) ==
  /\ UNCHANGED <<life_vars, at_read, msg_vars, conn_vars, tui_vars, ref_vars>>
  /\ pc[r] \in {"flush", "audit", "commit", "create_flush", "create_audit",
               "create_commit", "delete_audit", "delete_commit"}
  /\ store_writer' = IF store_writer = r THEN 0 ELSE store_writer
  /\ audit_logs' = IF pending_audit[r] # NoAudit
                   THEN Append(audit_logs, pending_audit[r]) ELSE audit_logs
  /\ pc' = [pc EXCEPT ![r] = "done"]
  /\ resp' = [resp EXCEPT ![r] = Response(500, "Internal Server Error", 0, 0, 0, NoRow)]
  /\ UNCHANGED <<assignments, inp, obj, before, pending_audit, lock_vars,
                 reg_vars, ws_vars, inbox, bc_vars, hist_vars>>

\* get_db: a store error or timeout in flush, log_action or commit rolls the
\* transaction back and the request fails
StoreFailure(r) ==
  /\ UNCHANGED <<life_vars, at_read, msg_vars, conn_vars, tui_vars, ref_vars>>
  /\ pc[r] \in {"flush", "audit", "commit", "create_flush", "create_audit",
               "create_commit", "delete_audit", "delete_commit"}
  /\ store_writer' = IF store_writer = r THEN 0 ELSE store_writer
  /\ pc' = [pc EXCEPT ![r] = "done"]
  /\ resp' = [resp EXCEPT ![r] = Response(500, "Internal Server Error", 0, 0, 0, NoRow)]
  /\ UNCHANGED <<assignments, audit_logs, inp, obj, before, pending_audit, lock_vars,
                 reg_vars, ws_vars, inbox, bc_vars, hist_vars>>

\* lines 243-265 up to the lock of _broadcast_filtered: the select returns the
\* object the session already holds, the response is built from it, and
\* broadcast_assignment_update reaches `async with self._lock`
Refetch(r) ==
  /\ UNCHANGED <<life_vars, at_read, msg_vars, conn_vars, tui_vars, ref_vars>>
  /\ pc[r] = "refetch"
  /\ IF AssignmentId \in DOMAIN assignments
     THEN /\ resp' = [resp EXCEPT ![r] = Response(200, "", obj[r].version, 0, 0, obj[r])]
          /\ bc_msg' = [bc_msg EXCEPT ![r] = AssignmentUpdatedMessage(UserOf(r), obj[r])]
          /\ bc_calls' = [bc_calls EXCEPT ![r] = Append(@, "assignment_updated")]
          /\ SetLock(LockArrive(TheLock, ReqTask(r)))
          /\ pc' = [pc EXCEPT ![r] = "broadcast"]
     ELSE \* scalar_one() finds no row: NoResultFound
          /\ resp' = [resp EXCEPT ![r] = Response(500, "NoResultFound", 0, 0, 0, NoRow)]
          /\ pc' = [pc EXCEPT ![r] = "done"]
          /\ UNCHANGED <<bc_msg, bc_calls, lock_vars>>
  /\ UNCHANGED <<inp, obj, before, pending_audit, store_vars, reg_vars, ws_vars, inbox,
                 bc_idx, bc_disconnected, bc_cleanup, read_row, commit_order,
                 stored_at_commit, bc_snapshot, bc_visits>>

\* a conflict payload that reports the attempted version as the current one
ConflictFetchEchoesAttempt(r) ==
  /\ UNCHANGED <<life_vars, at_read, msg_vars, conn_vars, tui_vars, ref_vars>>
  /\ pc[r] = "conflict_fetch"
  /\ resp' = [resp EXCEPT ![r] =
                Response(409, "Version conflict detected", 0, inp[r].version,
                         inp[r].version, obj[r])]
  /\ bc_msg' = [bc_msg EXCEPT ![r] =
                  ConflictMessage(r, inp[r].version, inp[r].version, obj[r])]
  /\ bc_calls' = [bc_calls EXCEPT ![r] = Append(@, "conflict_detected")]
  /\ SetLock(LockArrive(TheLock, ReqTask(r)))
  /\ pc' = [pc EXCEPT ![r] = "broadcast"]
  /\ UNCHANGED <<inp, obj, before, pending_audit, store_vars, reg_vars, ws_vars, inbox,
                 bc_idx, bc_disconnected, bc_cleanup, read_row, commit_order,
                 stored_at_commit, bc_snapshot, bc_visits>>

\* lines 166-189 up to the lock of _broadcast_filtered: the conflict payload is
\* built from the object the session holds and broadcast_conflict is called
ConflictFetch(r) ==
  /\ UNCHANGED <<life_vars, at_read, msg_vars, conn_vars, tui_vars, ref_vars>>
  /\ pc[r] = "conflict_fetch"
  /\ resp' = [resp EXCEPT ![r] =
                Response(409, "Version conflict detected", 0, obj[r].version,
                         inp[r].version, obj[r])]
  /\ bc_msg' = [bc_msg EXCEPT ![r] =
                  ConflictMessage(r, obj[r].version, inp[r].version, obj[r])]
  /\ bc_calls' = [bc_calls EXCEPT ![r] = Append(@, "conflict_detected")]
  /\ SetLock(LockArrive(TheLock, ReqTask(r)))
  /\ pc' = [pc EXCEPT ![r] = "broadcast"]
  /\ UNCHANGED <<inp, obj, before, pending_audit, store_vars, reg_vars, ws_vars, inbox,
                 bc_idx, bc_disconnected, bc_cleanup, read_row, commit_order,
                 stored_at_commit, bc_snapshot, bc_visits>>

\* ------------------------------------------------- create_assignment
\* request bodies: AssignmentCreate, every reference required
CreatePayloads ==
  { [ramp_id |-> 1, load_id |-> 1, status_id |-> 1],
    [ramp_id |-> 2, load_id |-> 2, status_id |-> 2],
    [ramp_id |-> MissingId, load_id |-> 1, status_id |-> 1],
    [ramp_id |-> 1, load_id |-> MissingId, status_id |-> 1],
    [ramp_id |-> 1, load_id |-> 1, status_id |-> MissingId] }

\* ids a delete request may name
TargetIds == {AssignmentId, AssignmentId + 1}

Max(S) == CHOOSE x \in S : \A y \in S : y <= x

\* the INTEGER PRIMARY KEY of the store: one more than the largest id present
NextId(table) == IF DOMAIN table = {} THEN 1 ELSE Max(DOMAIN table) + 1

\* Assignment(**assignment_in.model_dump(), created_by, updated_by) after the
\* INSERT applied the column default of version
NewAssignment(p, user) ==
  [version |-> InitialVersion, ramp_id |-> p.ramp_id, load_id |-> p.load_id,
   status_id |-> p.status_id, updated_by |-> user]

\* WSAssignmentUpdate built by broadcast_assignment_update for any action
AssignmentEventMessage(type, user, id, row) ==
  Message(type, user, id, row.version, 0, LoadDirectionOf(row.load_id), EmptyFilter)

\* lines 62-72: the referenced ramp, load and status must exist
CreateValidate(r) ==
  /\ pc[r] = "idle"
  /\ \A q \in Requests : q < r => pc[q] # "idle"
  /\ op' = [op EXCEPT ![r] = "create"]
  /\ \E p \in CreatePayloads :
       /\ inp' = [inp EXCEPT ![r] = [version |-> Unset, ramp_id |-> p.ramp_id,
                                      load_id |-> p.load_id, status_id |-> p.status_id]]
       /\ LET err == ReferenceError(p) IN
            IF err # ""
            THEN /\ pc' = [pc EXCEPT ![r] = "done"]
                 /\ resp' = [resp EXCEPT ![r] = Response(404, err, 0, 0, 0, NoRow)]
            ELSE /\ pc' = [pc EXCEPT ![r] = "create_flush"]
                 /\ resp' = resp
  /\ UNCHANGED <<obj, before, pending_audit, store_vars, lock_vars, reg_vars, ws_vars,
                 inbox, bc_vars, hist_vars, obj_id, at_read, msg_vars, conn_vars, tui_vars, ref_vars>>

\* lines 75-81: the INSERT takes the store's write lock and assigns the id
CreateFlush(r) ==
  /\ pc[r] = "create_flush"
  /\ store_writer = 0
  /\ store_writer' = r
  /\ obj_id' = [obj_id EXCEPT ![r] = NextId(assignments)]
  /\ obj' = [obj EXCEPT ![r] = NewAssignment(inp[r], UserOf(r))]
  /\ pc' = [pc EXCEPT ![r] = "create_audit"]
  /\ UNCHANGED <<assignments, audit_logs, inp, before, pending_audit, resp, lock_vars,
                 reg_vars, ws_vars, inbox, bc_vars, hist_vars, op, at_read,
                 msg_vars, conn_vars, tui_vars, ref_vars>>

\* lines 84-91: the CREATE audit row joins the transaction
CreateLogAction(r) ==
  /\ pc[r] = "create_audit"
  /\ pending_audit' = [pending_audit EXCEPT ![r] =
                         AuditRecord(r, "CREATE", obj_id[r], NoRow, obj[r])]
  /\ pc' = [pc EXCEPT ![r] = "create_commit"]
  /\ UNCHANGED <<inp, obj, before, resp, store_vars, lock_vars, reg_vars, ws_vars,
                 inbox, bc_vars, hist_vars, life_vars, at_read, msg_vars, conn_vars, tui_vars, ref_vars>>

\* line 93: the new row and its audit row become durable and visible
CreateCommit(r) ==
  /\ pc[r] = "create_commit"
  /\ store_writer = r
  /\ assignments' = PutKey(assignments, obj_id[r], obj[r])
  /\ audit_logs' = Append(audit_logs, pending_audit[r])
  /\ store_writer' = 0
  /\ commit_order' = Append(commit_order, r)
  /\ pc' = [pc EXCEPT ![r] = "create_refetch"]
  /\ UNCHANGED <<inp, obj, before, pending_audit, resp, lock_vars, reg_vars, ws_vars,
                 inbox, bc_vars, read_row, stored_at_commit, bc_snapshot, bc_visits,
                 bc_calls, life_vars, at_read, msg_vars, conn_vars, tui_vars, ref_vars>>

\* lines 95-117 up to the lock of _broadcast_filtered: the row is selected
\* again with scalar_one(), the response is built and the event is broadcast
CreateRefetch(r) ==
  /\ pc[r] = "create_refetch"
  /\ IF obj_id[r] \in DOMAIN assignments
     THEN /\ resp' = [resp EXCEPT ![r] = Response(201, "", obj[r].version, 0, 0, obj[r])]
          /\ bc_msg' = [bc_msg EXCEPT ![r] =
                          AssignmentEventMessage("assignment_created", UserOf(r),
                                                 obj_id[r], obj[r])]
          /\ bc_calls' = [bc_calls EXCEPT ![r] = Append(@, "assignment_created")]
          /\ SetLock(LockArrive(TheLock, ReqTask(r)))
          /\ pc' = [pc EXCEPT ![r] = "broadcast"]
     ELSE \* scalar_one() finds no row: NoResultFound
          /\ resp' = [resp EXCEPT ![r] = Response(500, "NoResultFound", 0, 0, 0, NoRow)]
          /\ pc' = [pc EXCEPT ![r] = "done"]
          /\ UNCHANGED <<bc_msg, bc_calls, lock_vars>>
  /\ UNCHANGED <<inp, obj, before, pending_audit, store_vars, reg_vars, ws_vars, inbox,
                 bc_idx, bc_disconnected, bc_cleanup, read_row, commit_order,
                 stored_at_commit, bc_snapshot, bc_visits, life_vars, at_read,
                 msg_vars, conn_vars, tui_vars, ref_vars>>

\* ------------------------------------------------- delete_assignment
\* a DELETE that leaves the row in place
DropRowKeepsRow(table, id) == table

\* DELETE FROM assignments WHERE id = :id; a statement that matches no row is
\* reported as a warning only
DropRow(table, id) == [x \in (DOMAIN table) \ {id} |-> table[x]]

\* lines 278-295: load the row, keep its data for the broadcast and the audit
DeleteRead(r) ==
  /\ pc[r] = "idle"
  /\ \A q \in Requests : q < r => pc[q] # "idle"
  /\ op' = [op EXCEPT ![r] = "delete"]
  /\ \E id \in TargetIds :
       /\ obj_id' = [obj_id EXCEPT ![r] = id]
       /\ IF id \notin DOMAIN assignments
          THEN /\ pc' = [pc EXCEPT ![r] = "done"]
               /\ resp' = [resp EXCEPT ![r] =
                             Response(404, "Assignment not found", 0, 0, 0, NoRow)]
               /\ UNCHANGED <<obj, before>>
          ELSE /\ obj' = [obj EXCEPT ![r] = assignments[id]]
               /\ before' = [before EXCEPT ![r] = assignments[id]]
               /\ pc' = [pc EXCEPT ![r] = "delete_audit"]
               /\ resp' = resp
  /\ at_read' = [at_read EXCEPT ![r] = AtRead(Len(commit_order), Rejected)]
  /\ UNCHANGED <<inp, pending_audit, store_vars, lock_vars, reg_vars, ws_vars, inbox,
                 bc_vars, hist_vars, msg_vars, conn_vars, tui_vars, ref_vars>>

\* lines 297-305: log_action flushes the DELETE audit row, which takes the
\* store's write lock
DeleteLogAction(r) ==
  /\ pc[r] = "delete_audit"
  /\ store_writer = 0
  /\ store_writer' = r
  /\ pending_audit' = [pending_audit EXCEPT ![r] =
                         AuditRecord(r, "DELETE", obj_id[r], before[r], NoRow)]
  /\ pc' = [pc EXCEPT ![r] = "delete_commit"]
  /\ UNCHANGED <<assignments, audit_logs, inp, obj, before, resp, lock_vars, reg_vars,
                 ws_vars, inbox, bc_vars, hist_vars, life_vars, at_read,
                 msg_vars, conn_vars, tui_vars, ref_vars>>

\* lines 307-308: the row is deleted and the transaction committed
DeleteCommit(r) ==
  /\ pc[r] = "delete_commit"
  /\ store_writer = r
  /\ assignments' = DropRow(assignments, obj_id[r])
  /\ audit_logs' = Append(audit_logs, pending_audit[r])
  /\ store_writer' = 0
  /\ commit_order' = Append(commit_order, r)
  /\ pc' = [pc EXCEPT ![r] = "delete_notify"]
  /\ UNCHANGED <<inp, obj, before, pending_audit, resp, lock_vars, reg_vars, ws_vars,
                 inbox, bc_vars, read_row, stored_at_commit, bc_snapshot, bc_visits,
                 bc_calls, life_vars, at_read, msg_vars, conn_vars, tui_vars, ref_vars>>

\* lines 310-317 up to the lock of _broadcast_filtered: the event is built from
\* the data read before the delete
DeleteBroadcast(r) ==
  /\ pc[r] = "delete_notify"
  /\ resp' = [resp EXCEPT ![r] = Response(204, "", 0, 0, 0, NoRow)]
  /\ bc_msg' = [bc_msg EXCEPT ![r] =
                  AssignmentEventMessage("assignment_deleted", UserOf(r), obj_id[r],
                                         before[r])]
  /\ bc_calls' = [bc_calls EXCEPT ![r] = Append(@, "assignment_deleted")]
  /\ SetLock(LockArrive(TheLock, ReqTask(r)))
  /\ pc' = [pc EXCEPT ![r] = "broadcast"]
  /\ UNCHANGED <<inp, obj, before, pending_audit, store_vars, reg_vars, ws_vars, inbox,
                 bc_idx, bc_disconnected, bc_cleanup, read_row, commit_order,
                 stored_at_commit, bc_snapshot, bc_visits, life_vars, at_read,
                 msg_vars, conn_vars, tui_vars, ref_vars>>

\* ------------------------------------------------ _broadcast_filtered
\* a filter test that skips every client with a direction filter
SkipClientAnyDirection(filters, load_direction) ==
  /\ Truthy(Get(filters, "direction"))
  /\ Truthy(load_direction)

\* lines 223-226: the client is skipped when its filter has a direction, the
\* event has a load direction, and the two differ
SkipClient(filters, load_direction) ==
  /\ Truthy(Get(filters, "direction"))
  /\ Truthy(load_direction)
  /\ filters["direction"] # load_direction

\* a loop that a failed send ends
NextIndexStopOnFailure(idx, sent, n) == IF sent THEN idx + 1 ELSE n

\* the loop goes on to the next client whether the send worked or not
NextIndex(idx, sent, n) == idx + 1

Visit(c, filters, outcome) == [client |-> c, filters |-> filters, outcome |-> outcome]

\* lines 219-246: one pass of the loop body, for the next client of the dict
BroadcastSend(r) ==
  /\ UNCHANGED <<life_vars, at_read, msg_vars, conn_vars, tui_vars, ref_vars>>
  /\ pc[r] = "broadcast"
  /\ lock_holder = ReqTask(r)
  /\ bc_idx[r] < Len(active_connections)
  /\ LET c == active_connections[bc_idx[r] + 1]
         filters == IF c \in DOMAIN client_filters THEN client_filters[c] ELSE EmptyFilter
         skip == SkipClient(filters, bc_msg[r].direction)
         sent == ~skip /\ transport[c] = "open"
     IN
       \* `await websocket.send_json` returns or raises unless the peer stalls
       /\ skip \/ transport[c] # "stalled"
       /\ inbox' = IF sent THEN [inbox EXCEPT ![c] = Append(@, bc_msg[r])] ELSE inbox
       /\ bc_disconnected' = IF ~skip /\ ~sent
                             THEN [bc_disconnected EXCEPT ![r] = @ \cup {c}]
                             ELSE bc_disconnected
       /\ bc_idx' = [bc_idx EXCEPT ![r] = NextIndex(bc_idx[r], skip \/ sent,
                                                    Len(active_connections))]
       /\ bc_visits' = [bc_visits EXCEPT ![r] =
                          Append(@, Visit(c, filters,
                                          IF skip THEN "skipped"
                                          ELSE IF sent THEN "sent" ELSE "failed"))]
       /\ bc_snapshot' = [bc_snapshot EXCEPT ![r] = active_connections]
  /\ UNCHANGED <<req_vars, store_vars, lock_vars, reg_vars, ws_vars, bc_msg, bc_cleanup,
                 read_row, commit_order, stored_at_commit, bc_calls>>

\* end of the loop: the lock is released and the first disconnect() of the
\* clean-up reaches the lock
BroadcastEnd(r) ==
  /\ UNCHANGED <<life_vars, at_read, msg_vars, conn_vars, tui_vars, ref_vars>>
  /\ pc[r] = "broadcast"
  /\ lock_holder = ReqTask(r)
  /\ bc_idx[r] >= Len(active_connections)
  /\ bc_cleanup' = [bc_cleanup EXCEPT ![r] = bc_disconnected[r]]
  /\ IF bc_disconnected[r] = {}
     THEN /\ SetLock(LockRelease(TheLock))
          /\ pc' = [pc EXCEPT ![r] = "done"]
     ELSE /\ SetLock(LockArrive(LockRelease(TheLock), ReqTask(r)))
          /\ pc' = [pc EXCEPT ![r] = "cleanup"]
  /\ UNCHANGED <<inp, obj, before, pending_audit, resp, store_vars, reg_vars, ws_vars,
                 inbox, bc_msg, bc_idx, bc_disconnected, hist_vars>>

\* ConnectionManager.disconnect under the lock: pop from both dicts
Disconnected(conns, c) == RemoveFromSeq(conns, c)

\* lines 248-250: disconnect() of one client of disconnected_clients
BroadcastCleanup(r) ==
  /\ UNCHANGED <<life_vars, at_read, msg_vars, conn_vars, tui_vars, ref_vars>>
  /\ pc[r] = "cleanup"
  /\ lock_holder = ReqTask(r)
  /\ \E c \in bc_cleanup[r] :
       /\ active_connections' = Disconnected(active_connections, c)
       /\ client_filters' = DropKey(client_filters, c)
       /\ bc_cleanup' = [bc_cleanup EXCEPT ![r] = @ \ {c}]
       /\ IF bc_cleanup[r] = {c}
          THEN /\ SetLock(LockRelease(TheLock))
               /\ pc' = [pc EXCEPT ![r] = "done"]
          ELSE /\ SetLock(LockArrive(LockRelease(TheLock), ReqTask(r)))
               /\ pc' = pc
  /\ UNCHANGED <<inp, obj, before, pending_audit, resp, store_vars, ws_vars, inbox,
                 bc_msg, bc_idx, bc_disconnected, hist_vars>>

\* ------------------------------------- websocket_endpoint and manager
\* the peer goes away: from now on every send to the socket fails and
\* receive_text raises WebSocketDisconnect
TransportClose(c) ==
  /\ UNCHANGED <<life_vars, at_read, msg_vars, conn_vars, tui_vars, ref_vars>>
  /\ transport[c] = "open"
  /\ transport' = [transport EXCEPT ![c] = "closed"]
  /\ UNCHANGED <<req_vars, store_vars, lock_vars, reg_vars, cpc,
                 inbox, bc_vars, hist_vars>>

\* websocket.py lines 92 and 101-102: receive_text raises WebSocketDisconnect
\* and disconnect() reaches the lock
ReceiveClosed(c) ==
  /\ UNCHANGED <<life_vars, at_read, msg_vars, conn_vars, tui_vars, ref_vars>>
  /\ cpc[c] = "receive"
  /\ transport[c] = "closed"
  /\ SetLock(LockArrive(TheLock, WsTask(c)))
  /\ cpc' = [cpc EXCEPT ![c] = "disconnecting"]
  /\ UNCHANGED <<req_vars, store_vars, reg_vars, transport, inbox, bc_vars,
                 hist_vars>>

\* manager.disconnect lines 71-73 under the lock, called by the endpoint
DisconnectPop(c) ==
  /\ UNCHANGED <<life_vars, at_read, msg_vars, conn_vars, tui_vars, ref_vars>>
  /\ cpc[c] = "disconnecting"
  /\ lock_holder = WsTask(c)
  /\ active_connections' = Disconnected(active_connections, c)
  /\ client_filters' = DropKey(client_filters, c)
  /\ SetLock(LockRelease(TheLock))
  /\ cpc' = [cpc EXCEPT ![c] = "gone"]
  \* websocket.py line 106: after an error the endpoint closes the socket
  /\ transport' = [transport EXCEPT ![c] = "closed"]
  /\ UNCHANGED <<req_vars, store_vars, inbox, bc_vars, hist_vars>>

\* the peer stops reading: a send to the socket neither returns nor raises
TransportStall(c) ==
  /\ transport[c] = "open"
  /\ transport' = [transport EXCEPT ![c] = "stalled"]
  /\ UNCHANGED <<req_vars, store_vars, lock_vars, reg_vars, cpc, inbox, bc_vars,
                 hist_vars, life_vars, at_read, msg_vars, conn_vars, tui_vars, ref_vars>>

\* ---------------------------------------------- handle_client_message
\* keys of the `extra` dict of the logger.critical call of lines 128-132, and
\* the LogRecord attributes that logging refuses to overwrite
ExtraKeys == {"client_id", "message"}
LogRecordKeys == {"message", "asctime"}

\* lines 127-133: the handler of any other exception logs, then answers; the
\* logging call itself raises KeyError when `extra` names a LogRecord attribute
UnexpectedError ==
  IF ExtraKeys \cap LogRecordKeys # {}
  THEN Raised("KeyError")
  ELSE ErrorReply("Internal server error")

\* a dispatch in which a ping falls into the unsubscribe branch
DispatchPingClears(m) ==
  IF m.json = "invalid" THEN ErrorReply("Invalid JSON")
  ELSE IF m.json # "object" THEN UnexpectedError
  ELSE IF m.type = "subscribe"
       THEN IF m.fkind = "string"
            THEN ErrorReply("Invalid message format")
            ELSE Reply("subscribe", "", EmptyFilter)
  ELSE IF m.type \in {"unsubscribe", "ping"} THEN Reply("unsubscribe", "", EmptyFilter)
  ELSE ErrorReply("Unknown message type")

\* lines 88-126 up to the first await: how the text is parsed and dispatched.
\* The result is "subscribe" or "unsubscribe" when the handler goes on to the
\* lock, and the returned reply or escaping exception otherwise.
Dispatch(m) ==
  IF m.json = "invalid" THEN ErrorReply("Invalid JSON")
  ELSE IF m.json # "object" THEN UnexpectedError  \* message_data.get: AttributeError
  ELSE IF m.type = "subscribe"
       THEN IF m.fkind = "string"
            THEN ErrorReply("Invalid message format")
            ELSE Reply("subscribe", "", EmptyFilter)
  ELSE IF m.type = "unsubscribe" THEN Reply("unsubscribe", "", EmptyFilter)
  ELSE IF m.type = "ping" THEN Reply("pong", "", EmptyFilter)
  ELSE ErrorReply("Unknown message type")

\* subscribe_msg.filters or {}
FiltersOrEmpty(m) == IF m.fkind = "dict" THEN m.filters ELSE EmptyFilter

\* a subscribe that merges the new filter into the old one
SubscribedMerged(filters, c, f) ==
  LET old == IF c \in DOMAIN filters THEN filters[c] ELSE EmptyFilter IN
    PutKey(filters, c,
           [k \in (DOMAIN old) \cup (DOMAIN f) |-> IF k \in DOMAIN f THEN f[k] ELSE old[k]])

\* line 96: self.client_filters[client_id] = subscribe_msg.filters or {}
Subscribed(filters, c, f) == PutKey(filters, c, f)

\* an unsubscribe that removes the client's entry
UnsubscribedPopped(filters, c) == DropKey(filters, c)

\* line 106: self.client_filters[client_id] = {}
Unsubscribed(filters, c) == PutKey(filters, c, EmptyFilter)

\* get_client_info: the filter reported for every registered client
ClientInfo(conns, filters) ==
  [c \in SeqToSet(conns) |-> IF c \in DOMAIN filters THEN filters[c] ELSE EmptyFilter]

\* websocket.py lines 92-95 and manager lines 88-116 up to the first await:
\* a text the peer sent is received, parsed and dispatched; a subscribe or
\* unsubscribe reaches the lock, an escaping exception ends the receive loop
\* and disconnect() reaches the lock
ReceiveMessage(c) ==
  /\ cpc[c] = "receive"
  /\ transport[c] \in {"open", "closed"}
  /\ c \in Talkers
  /\ handled[c] < MaxMessages
  /\ handled' = [handled EXCEPT ![c] = @ + 1]
  /\ prev_msg' = [prev_msg EXCEPT ![c] = cur_msg[c]]
  /\ \E m \in MessageTexts :
       /\ cur_msg' = [cur_msg EXCEPT ![c] = m]
       /\ LET d == Dispatch(m) IN
            IF d.type \in {"subscribe", "unsubscribe"}
            THEN /\ SetLock(LockArrive(TheLock, WsTask(c)))
                 /\ cpc' = [cpc EXCEPT ![c] = IF d.type = "subscribe"
                                               THEN "subscribing" ELSE "unsubscribing"]
                 /\ reply' = [reply EXCEPT ![c] = NoReply]
            ELSE IF d.type = "raised"
            THEN /\ SetLock(LockArrive(TheLock, WsTask(c)))
                 /\ cpc' = [cpc EXCEPT ![c] = "disconnecting"]
                 /\ reply' = [reply EXCEPT ![c] = d]
            ELSE /\ cpc' = [cpc EXCEPT ![c] = "reply"]
                 /\ reply' = [reply EXCEPT ![c] = d]
                 /\ UNCHANGED lock_vars
  /\ UNCHANGED <<req_vars, store_vars, reg_vars, transport, inbox, bc_vars, hist_vars,
                 life_vars, at_read, conn_vars, tui_vars, ref_vars>>

\* lines 95-101: under the lock the filter is replaced; the lock is released
\* and the reply is built from the stored filter
SubscribeSet(c) ==
  /\ cpc[c] = "subscribing"
  /\ lock_holder = WsTask(c)
  /\ client_filters' = Subscribed(client_filters, c, FiltersOrEmpty(cur_msg[c]))
  /\ reply' = [reply EXCEPT ![c] =
                 Reply("subscribe_ack", "Subscription updated", client_filters'[c])]
  /\ SetLock(LockRelease(TheLock))
  /\ cpc' = [cpc EXCEPT ![c] = "reply"]
  /\ UNCHANGED <<req_vars, store_vars, active_connections, transport, inbox, bc_vars,
                 hist_vars, life_vars, at_read, cur_msg, handled, prev_msg, conn_vars, tui_vars, ref_vars>>

\* lines 105-107: under the lock the filter is cleared
UnsubscribeSet(c) ==
  /\ cpc[c] = "unsubscribing"
  /\ lock_holder = WsTask(c)
  /\ client_filters' = Unsubscribed(client_filters, c)
  /\ reply' = [reply EXCEPT ![c] =
                 Reply("unsubscribe_ack", "Unsubscribed from all updates", EmptyFilter)]
  /\ SetLock(LockRelease(TheLock))
  /\ cpc' = [cpc EXCEPT ![c] = "reply"]
  /\ UNCHANGED <<req_vars, store_vars, active_connections, transport, inbox, bc_vars,
                 hist_vars, life_vars, at_read, cur_msg, handled, prev_msg, conn_vars, tui_vars, ref_vars>>

\* websocket.py lines 98-105: the reply is sent and the loop goes on; a failed
\* send ends the loop and disconnect() reaches the lock
ReplySend(c) ==
  /\ cpc[c] = "reply"
  /\ transport[c] # "stalled"
  /\ IF transport[c] = "open"
     THEN /\ inbox' = [inbox EXCEPT ![c] = Append(@, ReplyMessage(reply[c]))]
          /\ cpc' = [cpc EXCEPT ![c] = "receive"]
          /\ UNCHANGED lock_vars
     ELSE /\ SetLock(LockArrive(TheLock, WsTask(c)))
          /\ cpc' = [cpc EXCEPT ![c] = "disconnecting"]
          /\ inbox' = inbox
  /\ UNCHANGED <<req_vars, store_vars, reg_vars, transport, bc_vars, hist_vars,
                 life_vars, at_read, msg_vars, conn_vars, tui_vars, ref_vars>>

\* -------------------------------------------------------- update_ramp
\* a field the request body leaves out
UnsetField == "<unset>"

\* request bodies: RampUpdate, whose fields are code, description, direction
RampPayloads ==
  { [code |-> UnsetField, description |-> UnsetField, direction |-> UnsetField],
    [code |-> UnsetField, description |-> "First Update", direction |-> UnsetField],
    [code |-> UnsetField, description |-> "Second Update", direction |-> UnsetField],
    [code |-> UnsetField, description |-> UnsetField, direction |-> "OB"] }

\* the ramp_id path parameter
TargetRamps == {1, MissingId}

\* lines 94-98: setattr for every field of update_data, increment_version
ApplyRampUpdate(row, p) ==
  IncrementVersion(
    [row EXCEPT !.code = IF p.code # UnsetField THEN p.code ELSE @,
                !.description = IF p.description # UnsetField THEN p.description ELSE @,
                !.direction = IF p.direction # UnsetField THEN p.direction ELSE @])

\* lines 86-98: the ramp is loaded, the snapshot taken and the object mutated;
\* the request body carries no version and none is compared
RampRead(r) ==
  /\ pc[r] = "idle"
  /\ \A q \in Requests : q < r => pc[q] # "idle"
  /\ op' = [op EXCEPT ![r] = "update_ramp"]
  /\ at_read' = [at_read EXCEPT ![r] = AtRead(Len(commit_order), Rejected)]
  /\ \E id \in TargetRamps, p \in RampPayloads :
       /\ obj_id' = [obj_id EXCEPT ![r] = id]
       /\ IF id \notin DOMAIN ramps
          THEN /\ pc' = [pc EXCEPT ![r] = "done"]
               /\ resp' = [resp EXCEPT ![r] = Response(404, "Ramp not found", 0, 0, 0, NoRow)]
               /\ UNCHANGED <<obj, before, read_row>>
          ELSE /\ before' = [before EXCEPT ![r] = ramps[id]]
               /\ read_row' = [read_row EXCEPT ![r] = ramps[id]]
               /\ obj' = [obj EXCEPT ![r] = ApplyRampUpdate(ramps[id], p)]
               /\ pc' = [pc EXCEPT ![r] = "ramp_flush"]
               /\ resp' = resp
  /\ UNCHANGED <<inp, pending_audit, store_vars, lock_vars, reg_vars, ws_vars, inbox,
                 bc_vars, commit_order, stored_at_commit, bc_snapshot, bc_visits,
                 bc_calls, msg_vars, conn_vars, tui_vars, ref_vars>>

\* line 99: the UPDATE of the flush takes the store's write lock
RampFlush(r) ==
  /\ pc[r] = "ramp_flush"
  /\ store_writer = 0
  /\ store_writer' = r
  /\ pc' = [pc EXCEPT ![r] = "ramp_audit"]
  /\ UNCHANGED <<assignments, audit_logs, inp, obj, before, pending_audit, resp,
                 lock_vars, reg_vars, ws_vars, inbox, bc_vars, hist_vars, life_vars,
                 at_read, msg_vars, conn_vars, tui_vars, ref_vars>>

\* lines 102-110: the audit row joins the transaction
RampLogAction(r) ==
  /\ pc[r] = "ramp_audit"
  /\ pending_audit' = [pending_audit EXCEPT ![r] =
                         AuditRecord(r, "UPDATE", obj_id[r], before[r], obj[r])]
  /\ pc' = [pc EXCEPT ![r] = "ramp_commit"]
  /\ UNCHANGED <<inp, obj, before, resp, store_vars, lock_vars, reg_vars, ws_vars,
                 inbox, bc_vars, hist_vars, life_vars, at_read, msg_vars, conn_vars,
                 tui_vars, ref_vars>>

\* line 112: the transaction commits and the write lock is freed
RampCommit(r) ==
  /\ pc[r] = "ramp_commit"
  /\ store_writer = r
  /\ ramps' = [ramps EXCEPT ![obj_id[r]] = FlushedRow(@, before[r], obj[r])]
  /\ audit_logs' = Append(audit_logs, pending_audit[r])
  /\ store_writer' = 0
  /\ commit_order' = Append(commit_order, r)
  /\ stored_at_commit' = [stored_at_commit EXCEPT ![r] = ramps[obj_id[r]].version]
  /\ pc' = [pc EXCEPT ![r] = "ramp_refresh"]
  /\ UNCHANGED <<assignments, inp, obj, before, pending_audit, resp, lock_vars, reg_vars,
                 ws_vars, inbox, bc_vars, read_row, bc_snapshot, bc_visits, bc_calls,
                 life_vars, at_read, msg_vars, conn_vars, tui_vars>>

\* lines 113-114: the object is refreshed from the store and returned
RampRefresh(r) ==
  /\ pc[r] = "ramp_refresh"
  /\ obj' = [obj EXCEPT ![r] = ramps[obj_id[r]]]
  /\ resp' = [resp EXCEPT ![r] =
                Response(200, "", ramps[obj_id[r]].version, 0, 0, ramps[obj_id[r]])]
  /\ pc' = [pc EXCEPT ![r] = "done"]
  /\ UNCHANGED <<inp, before, pending_audit, store_vars, lock_vars, reg_vars, ws_vars,
                 inbox, bc_vars, hist_vars, life_vars, at_read, msg_vars, conn_vars,
                 tui_vars, ref_vars>>

\* ------------------------------------- authentication and connect
\* the `token` query parameter of a connection request
Tokens == {"missing", "invalid", "valid"}

\* decode_access_token: the payload of a token that verifies, None otherwise
DecodeAccessToken(tok) == IF tok = "valid" THEN "payload" ELSE PyNone

\* an authentication that takes any token that is present
GetWebsocketUserUnverified(tok) == IF tok = "missing" THEN PyNone ELSE "payload"

\* get_websocket_user: None without a token, else what decoding gives
GetWebsocketUser(tok) == IF tok = "missing" THEN PyNone ELSE DecodeAccessToken(tok)

\* a lookup that does not find the connection
SendToClientMissing(conns, c) == FALSE

\* _send_to_client lines 260-261: the message is sent when the client id is
\* a key of active_connections
SendToClient(conns, c) == c \in SeqToSet(conns)

\* websocket.py lines 78-87 and manager.connect lines 46-51: a connection
\* request arrives; without a principal the socket is closed with 1008, else
\* it is accepted and connect() reaches the lock
WsConnect(c) ==
  /\ cpc[c] = "idle"
  /\ \E tok \in Tokens :
       /\ token' = [token EXCEPT ![c] = tok]
       /\ IF GetWebsocketUser(tok) = PyNone
          THEN /\ transport' = [transport EXCEPT ![c] = "closed"]
               /\ cpc' = [cpc EXCEPT ![c] = "rejected"]
               /\ UNCHANGED lock_vars
          ELSE /\ transport' = [transport EXCEPT ![c] = "open"]
               /\ cpc' = [cpc EXCEPT ![c] = "connecting"]
               /\ SetLock(LockArrive(TheLock, WsTask(c)))
  /\ UNCHANGED <<req_vars, store_vars, reg_vars, inbox, bc_vars, hist_vars, life_vars,
                 at_read, msg_vars, tui_vars, ref_vars>>

\* manager.connect lines 51-60 and _send_to_client lines 260-263: under the
\* lock the connection is stored with an empty filter; the lock is released
\* and, with no suspension point in between, the connection_ack is sent.  A
\* send that raises makes _send_to_client call disconnect(), which reaches
\* the lock.
ConnectRegister(c) ==
  /\ cpc[c] = "connecting"
  /\ lock_holder = WsTask(c)
  /\ active_connections' = IF c \in SeqToSet(active_connections)
                           THEN active_connections
                           ELSE Append(active_connections, c)
  /\ client_filters' = PutKey(client_filters, c, EmptyFilter)
  /\ IF ~SendToClient(active_connections', c)
     THEN /\ inbox' = inbox
          /\ cpc' = [cpc EXCEPT ![c] = "receive"]
          /\ SetLock(LockRelease(TheLock))
     ELSE IF transport[c] = "open"
     THEN /\ inbox' = [inbox EXCEPT ![c] = Append(@, ConnectionAck)]
          /\ cpc' = [cpc EXCEPT ![c] = "receive"]
          /\ SetLock(LockRelease(TheLock))
     ELSE IF transport[c] = "stalled"
     THEN /\ inbox' = inbox
          /\ cpc' = [cpc EXCEPT ![c] = "ack_pending"]
          /\ SetLock(LockRelease(TheLock))
     ELSE /\ inbox' = inbox
          /\ cpc' = [cpc EXCEPT ![c] = "ack_failed"]
          /\ SetLock(LockArrive(LockRelease(TheLock), WsTask(c)))
  /\ UNCHANGED <<req_vars, store_vars, transport, bc_vars, hist_vars, life_vars,
                 at_read, msg_vars, conn_vars, tui_vars, ref_vars>>

\* _send_to_client lines 264-280 and disconnect lines 71-73: the disconnect()
\* after a failed connection_ack; connect() returns and the endpoint enters
\* its receive loop
AckDisconnect(c) ==
  /\ cpc[c] = "ack_failed"
  /\ lock_holder = WsTask(c)
  /\ active_connections' = Disconnected(active_connections, c)
  /\ client_filters' = DropKey(client_filters, c)
  /\ SetLock(LockRelease(TheLock))
  /\ cpc' = [cpc EXCEPT ![c] = "receive"]
  /\ UNCHANGED <<req_vars, store_vars, transport, inbox, bc_vars, hist_vars, life_vars,
                 at_read, msg_vars, conn_vars, tui_vars, ref_vars>>

\* ------------------------------------------- TUI WebSocketClient
\* client_tui/app/services/websocket_client.py with auto_reconnect left at
\* its default True and the token set.  Task 0 is the caller of connect() and
\* disconnect(); task n >= 1 is the listener created for connection n.
Tasks == 0..MaxConnections
Listeners == 1..MaxConnections

backend_vars == <<store_vars, req_vars, lock_vars, reg_vars, ws_vars, inbox, bc_vars,
                  hist_vars, life_vars, at_read, msg_vars, conn_vars, ref_vars>>

\* line 125: while self.retry_count < self.max_retries
RetryAllowed(count, max) == count < max

\* line 134: if self.retry_count >= self.max_retries
Exhausted(count, max) == count >= max

\* the number of the next connection websockets.connect returns
NextConn == Cardinality({n \in Listeners : conn[n] # "unused"}) + 1

\* lpc after task t has finished (a listener ends, the caller has no entry)
Finished(l, t) == [n \in Listeners |-> IF n = t THEN "done" ELSE l[n]]

\* connect() lines 80-81 and _connect_with_retry lines 123-127 up to the await
\* of websockets.connect; when the loop is not entered the call returns
CallConnect ==
  /\ upc = "idle"
  /\ calls < MaxCalls
  /\ calls' = calls + 1
  /\ manual' = FALSE
  /\ disconnected' = FALSE
  /\ reconnecting' = TRUE
  /\ fails' = [fails EXCEPT ![0] = 0]
  /\ IF RetryAllowed(retry_count, MaxRetries)
     THEN /\ rpc' = [rpc EXCEPT ![0] = "attempt"]
          /\ upc' = "connect"
          /\ call_result' = "pending"
     ELSE /\ rpc' = rpc
          /\ upc' = "idle"
          /\ call_result' = "returned"
  /\ UNCHANGED <<running, retry_count, websocket, task, conn, lpc, closing, joined,
                 conn_status, backend_vars>>

\* _connect_once lines 95-108 and _connect_with_retry lines 128-129: the
\* connection is made, the listener task created and the call returns
AttemptSucceeds(t) ==
  /\ rpc[t] = "attempt"
  /\ NextConn <= MaxConnections
  /\ LET n == NextConn IN
       /\ conn' = [conn EXCEPT ![n] = "open"]
       /\ websocket' = n
       /\ task' = n
       /\ lpc' = [Finished(lpc, t) EXCEPT ![n] = "listening"]
  /\ running' = TRUE
  /\ retry_count' = 0
  /\ conn_status' = "connected"
  /\ reconnecting' = FALSE
  /\ rpc' = [rpc EXCEPT ![t] = "none"]
  /\ fails' = [x \in Tasks |-> 0]
  /\ IF t = 0
     THEN upc' = "idle" /\ call_result' = "returned"
     ELSE UNCHANGED <<upc, call_result>>
  /\ UNCHANGED <<closing, joined, calls, manual, disconnected, backend_vars>>

\* _connect_once lines 110-119 and _connect_with_retry lines 131-154: the
\* attempt times out or fails; the count goes up and the call raises or sleeps
AttemptFails(t) ==
  /\ rpc[t] = "attempt"
  /\ retry_count' = retry_count + 1
  /\ fails' = [fails EXCEPT ![t] = @ + 1]
  /\ IF Exhausted(retry_count', MaxRetries)
     THEN /\ reconnecting' = FALSE
          /\ conn_status' = "max_retries_reached"
          /\ rpc' = [rpc EXCEPT ![t] = "none"]
          /\ IF t = 0
             THEN upc' = "idle" /\ call_result' = "raised" /\ lpc' = lpc
             ELSE lpc' = Finished(lpc, t) /\ UNCHANGED <<upc, call_result>>
     ELSE /\ conn_status' = "reconnecting"
          /\ rpc' = [rpc EXCEPT ![t] = "sleep"]
          /\ UNCHANGED <<reconnecting, upc, call_result, lpc>>
  /\ UNCHANGED <<running, websocket, task, conn, closing, joined, calls, manual,
                 disconnected, backend_vars>>

\* lines 154 and 125: the backoff sleep ends and the loop condition is tested
\* again; when it fails the function returns
BackoffEnds(t) ==
  /\ rpc[t] = "sleep"
  /\ IF RetryAllowed(retry_count, MaxRetries)
     THEN /\ rpc' = [rpc EXCEPT ![t] = "attempt"]
          /\ UNCHANGED <<upc, call_result, lpc>>
     ELSE /\ rpc' = [rpc EXCEPT ![t] = "none"]
          /\ IF t = 0
             THEN upc' = "idle" /\ call_result' = "returned" /\ lpc' = lpc
             ELSE lpc' = Finished(lpc, t) /\ UNCHANGED <<upc, call_result>>
  /\ UNCHANGED <<running, retry_count, reconnecting, websocket, task, conn, closing,
                 joined, conn_status, calls, fails, manual, disconnected, backend_vars>>

\* the server or the network ends a connection, with or without a closing
\* handshake
ConnectionLost(n) ==
  /\ conn[n] = "open"
  /\ \E how \in {"closed_ok", "closed_error"} : conn' = [conn EXCEPT ![n] = how]
  /\ UNCHANGED <<running, retry_count, reconnecting, websocket, task, lpc, upc, rpc,
                 closing, joined, conn_status, calls, call_result, fails, manual,
                 disconnected, backend_vars>>

\* line 162: after a normal closure the iteration over the socket ends and
\* the listener finishes (line 203)
ListenEnds(n) ==
  /\ lpc[n] = "listening"
  /\ conn[n] = "closed_ok"
  /\ lpc' = Finished(lpc, n)
  /\ UNCHANGED <<running, retry_count, reconnecting, websocket, task, conn, upc, rpc,
                 closing, joined, conn_status, calls, call_result, fails, manual,
                 disconnected, backend_vars>>

\* lines 180-191 and 123-127: ConnectionClosed is raised in the listener,
\* which reports it and calls _connect_with_retry
ListenClosed(n) ==
  /\ lpc[n] = "listening"
  /\ conn[n] = "closed_error"
  /\ running' = FALSE
  /\ conn_status' = "disconnected"
  /\ reconnecting' = TRUE
  /\ fails' = [fails EXCEPT ![n] = 0]
  /\ IF RetryAllowed(retry_count, MaxRetries)
     THEN /\ rpc' = [rpc EXCEPT ![n] = "attempt"]
          /\ lpc' = [lpc EXCEPT ![n] = "reconnect"]
     ELSE /\ rpc' = rpc
          /\ lpc' = Finished(lpc, n)
  /\ UNCHANGED <<retry_count, websocket, task, conn, upc, closing, joined, calls,
                 call_result, manual, disconnected, backend_vars>>

\* disconnect() lines 232-236 after the socket is dealt with: the listener
\* task is awaited unless there is none or it has finished
AwaitTask ==
  IF task # 0 /\ lpc[task] # "done"
  THEN upc' = "joining" /\ joined' = task /\ disconnected' = FALSE
  ELSE upc' = "idle" /\ joined' = joined /\ disconnected' = TRUE

\* disconnect() lines 232-234: running is cleared and the socket is closed
CallDisconnect ==
  /\ upc = "idle"
  /\ calls < MaxCalls
  /\ calls' = calls + 1
  /\ running' = FALSE
  /\ manual' = TRUE
  /\ IF websocket # 0
     THEN /\ upc' = "closing"
          /\ closing' = websocket
          /\ UNCHANGED <<joined, disconnected>>
     ELSE /\ AwaitTask
          /\ closing' = closing
  /\ UNCHANGED <<retry_count, reconnecting, websocket, task, conn, lpc, rpc, conn_status,
                 call_result, fails, backend_vars>>

\* lines 234-236: close() returns, after the closing handshake when the
\* connection was open
CloseDone ==
  /\ upc = "closing"
  /\ conn' = [conn EXCEPT ![closing] = IF @ = "open" THEN "closed_ok" ELSE @]
  /\ AwaitTask
  /\ UNCHANGED <<running, retry_count, reconnecting, websocket, task, lpc, rpc, closing,
                 conn_status, calls, call_result, fails, manual, backend_vars>>

\* line 236: the awaited listener task has finished and disconnect() returns
JoinDone ==
  /\ upc = "joining"
  /\ lpc[joined] = "done"
  /\ upc' = "idle"
  /\ disconnected' = TRUE
  /\ UNCHANGED <<running, retry_count, reconnecting, websocket, task, conn, lpc, rpc,
                 closing, joined, conn_status, calls, call_result, fails, manual,
                 backend_vars>>

\* ---------------------------------------------------- specification
\* a request while every connection stays up
WriterStep(r) ==
  \/ ReadAssignment(r)
  \/ ValidateReferences(r)
  \/ Flush(r)
  \/ LogAction(r)
  \/ Commit(r)
  \/ StoreFailure(r)
  \/ Refetch(r)
  \/ ConflictFetch(r)
  \/ BroadcastSend(r)
  \/ BroadcastEnd(r)

RequestStep(r) ==
  \/ WriterStep(r)
  \/ BroadcastCleanup(r)

ClientStep(c) ==
  \/ TransportClose(c)
  \/ ReceiveClosed(c)
  \/ DisconnectPop(c)

Next ==
  \/ \E r \in Requests : RequestStep(r)
  \/ \E c \in Clients : ClientStep(c)

NextWriters == \E r \in Requests : WriterStep(r)

\* concurrent update requests, connections stay up
Spec == Init /\ [][NextWriters]_vars

\* one request and its broadcast, connections fail and are cleaned up
SpecFanout == InitFanout /\ [][Next]_vars

\* create, update and delete requests, one connection that may fail
LifecycleStep(r) ==
  \/ RequestStep(r)
  \/ CreateValidate(r)
  \/ CreateFlush(r)
  \/ CreateLogAction(r)
  \/ CreateCommit(r)
  \/ CreateRefetch(r)
  \/ DeleteRead(r)
  \/ DeleteLogAction(r)
  \/ DeleteCommit(r)
  \/ DeleteBroadcast(r)

NextLifecycle ==
  \/ \E r \in Requests : LifecycleStep(r)
  \/ \E c \in Clients : ClientStep(c)

SpecLifecycle == Init /\ [][NextLifecycle]_vars

\* one request and its broadcast while a peer may stop reading; every request
\* handler is a task the event loop keeps running
NextStall ==
  \/ Next
  \/ \E c \in Clients : TransportStall(c)

SpecStall ==
  /\ InitFanout
  /\ [][NextStall]_vars
  /\ \A r \in Requests : WF_vars(RequestStep(r))

\* control messages of the talking connection while connections may fail
InitMessages ==
  /\ InitCommon
  /\ pc = [r \in Requests |-> "unused"]
  /\ client_filters = [c \in Clients |-> EmptyFilter]
  /\ Registered(NumClients)

MessageStep(c) ==
  \/ ReceiveMessage(c)
  \/ SubscribeSet(c)
  \/ UnsubscribeSet(c)
  \/ ReplySend(c)

NextMessages ==
  \/ \E c \in Clients : ClientStep(c)
  \/ \E c \in Clients : MessageStep(c)

SpecMessages == InitMessages /\ [][NextMessages]_vars

\* the registry while it changes: the first connection arrives, authenticates,
\* registers and sends control messages; the other connections are registered
\* without a filter; any connection may fail; one delete request broadcasts
InitRegistry ==
  /\ InitCommon
  /\ pc = [r \in Requests |-> IF r = 1 THEN "idle" ELSE "unused"]
  /\ active_connections = [i \in 1..(NumClients - 1) |-> i + 1]
  /\ client_filters = [c \in Clients \ {1} |-> EmptyFilter]
  /\ transport = [c \in Clients |-> IF c = 1 THEN "none" ELSE "open"]
  /\ cpc = [c \in Clients |-> IF c = 1 THEN "idle" ELSE "receive"]
  /\ inbox = [c \in Clients |-> IF c = 1 THEN <<>> ELSE <<ConnectionAck>>]
  /\ token = [c \in Clients |-> IF c = 1 THEN "unset" ELSE "valid"]

ConnectStep(c) ==
  \/ WsConnect(c)
  \/ ConnectRegister(c)
  \/ AckDisconnect(c)

DeleteStep(r) ==
  \/ DeleteRead(r)
  \/ DeleteLogAction(r)
  \/ DeleteCommit(r)
  \/ DeleteBroadcast(r)
  \/ BroadcastSend(r)
  \/ BroadcastEnd(r)
  \/ BroadcastCleanup(r)

NextRegistry ==
  \/ \E r \in Requests : DeleteStep(r)
  \/ \E c \in Clients : ConnectStep(c)
  \/ \E c \in Clients : ClientStep(c)
  \/ \E c \in Clients : MessageStep(c)

SpecRegistry == InitRegistry /\ [][NextRegistry]_vars

\* concurrent update_ramp requests
RampStep(r) ==
  \/ RampRead(r)
  \/ RampFlush(r)
  \/ RampLogAction(r)
  \/ RampCommit(r)
  \/ RampRefresh(r)

NextRamps == \E r \in Requests : RampStep(r)

SpecRamps == Init /\ [][NextRamps]_vars

\* the TUI client: its caller, its listeners and the network
NextClient ==
  \/ CallConnect
  \/ CallDisconnect
  \/ CloseDone
  \/ JoinDone
  \/ \E t \in Tasks : AttemptSucceeds(t)
  \/ \E t \in Tasks : AttemptFails(t)
  \/ \E t \in Tasks : BackoffEnds(t)
  \/ \E n \in Listeners : ConnectionLost(n)
  \/ \E n \in Listeners : ListenEnds(n)
  \/ \E n \in Listeners : ListenClosed(n)

SpecClient == Init /\ [][NextClient]_vars

\* ------------------------------------------------------------ properties
Done(r) == pc[r] = "done"
Accepted(r) == Done(r) /\ resp[r].status = 200
Committed(r) == r \in SeqToSet(commit_order)
StoredVersion == assignments[AssignmentId].version
AuditRowsOf(r) == {i \in DOMAIN audit_logs : audit_logs[i].rid = r}
HasMessage(c, m) == \E i \in DOMAIN inbox[c] : inbox[c][i] = m
CommitPosition(r) == CHOOSE i \in DOMAIN commit_order : commit_order[i] = r
CommitStep(r) == pc[r] = "commit" /\ pc'[r] = "refetch"

\* C1: of two finished update requests that both carried the original version
\* and met no missing reference and no store failure, exactly one was accepted,
\* and the other got Conflict with current_version = original version + 1 and
\* provided_version = the shared version.
C1_ExactlyOneAccepted ==
  \A r1, r2 \in Requests :
    ( /\ r1 # r2
      /\ Done(r1) /\ Done(r2)
      /\ inp[r1].version = InitialVersion /\ inp[r2].version = InitialVersion
      /\ ReferenceError(inp[r1]) = "" /\ ReferenceError(inp[r2]) = ""
      /\ resp[r1].status # 500 /\ resp[r2].status # 500 )
    => \E w, l \in {r1, r2} :
         /\ w # l
         /\ resp[w].status = 200
         /\ resp[l].status = 409
         /\ resp[l].current_version = InitialVersion + 1
         /\ resp[l].provided_version = InitialVersion

\* C2: once every request has returned, the stored version is 1 plus the
\* number of update requests that returned success.
C2_VersionCountsAccepted ==
  (\A r \in Requests : Done(r))
    => StoredVersion = 1 + Cardinality({r \in Requests : Accepted(r)})

\* C3: the stored version never decreases and moves only by +1, exactly when
\* a request commits; every commit moves it by +1, and an accepted request
\* answers with the version its commit replaced, plus one.
C3_VersionStepsByOne ==
  [][ /\ StoredVersion' \in {StoredVersion, StoredVersion + 1}
      /\ (StoredVersion' # StoredVersion) <=> (\E r \in Requests : CommitStep(r))
      /\ \A r \in Requests :
           (Done(r)' /\ resp'[r].status = 200)
             => resp'[r].version = stored_at_commit'[r] + 1 ]_vars

C5_MissingReferenceNotFound ==
  \A r \in Requests :
    (Done(r) /\ ReferenceError(inp[r]) # "")
    => /\ resp[r].status = 404
       /\ bc_calls[r] = <<>>
       /\ AuditRowsOf(r) = {}
       /\ ~Committed(r)

\* C6: when a request has returned Conflict, every client its broadcast
\* visited was sent the conflict_detected event, whatever its filter: none was
\* skipped, and every client whose send worked has the event.
C6_ConflictToEveryClient ==
  \A r \in Requests :
    (Done(r) /\ resp[r].status = 409)
    => \A i \in DOMAIN bc_visits[r] :
         /\ bc_visits[r][i].outcome # "skipped"
         /\ bc_visits[r][i].outcome = "sent"
              => HasMessage(bc_visits[r][i].client, bc_msg[r])

\* C7 as stated: a client whose send did not fail has the assignment_updated
\* event if and only if its filter is empty or the filter's direction equals
\* the direction of the event's load.
C7_DeliveredIffEmptyOrEqual ==
  \A r \in Requests :
    (Done(r) /\ bc_msg[r].type = "assignment_updated")
    => \A i \in DOMAIN bc_visits[r] :
         LET v == bc_visits[r][i] IN
           v.outcome # "failed"
           => ( HasMessage(v.client, bc_msg[r])
                <=> ( \/ v.filters = EmptyFilter
                      \/ Get(v.filters, "direction") = bc_msg[r].direction ) )

\* C7 amended: a client whose send did not fail has the assignment_updated
\* event if and only if its filter carries no direction (no such key, null or
\* empty) or the filter's direction equals the direction of the event's load.
C7_DeliveredIffNoDirectionOrEqual ==
  \A r \in Requests :
    (Done(r) /\ bc_msg[r].type = "assignment_updated")
    => \A i \in DOMAIN bc_visits[r] :
         LET v == bc_visits[r][i] IN
           v.outcome # "failed"
           => ( HasMessage(v.client, bc_msg[r])
                <=> ( \/ ~Truthy(Get(v.filters, "direction"))
                      \/ Get(v.filters, "direction") = bc_msg[r].direction ) )

\* C7 witness: one assignment_updated broadcast reached a client whose
\* direction filter equals the load's direction and skipped another client
C7_Witness ==
  \E r \in Requests :
    /\ Done(r) /\ bc_msg[r].type = "assignment_updated"
    /\ \E i, j \in DOMAIN bc_visits[r] :
         /\ bc_visits[r][i].outcome = "sent"
         /\ Get(bc_visits[r][i].filters, "direction") = bc_msg[r].direction
         /\ bc_visits[r][j].outcome = "skipped"

\* C8: when a request whose broadcast met a failing send has returned, it
\* returned its normal response, the broadcast visited every client of the
\* registry in order, every failing client is gone from both dicts, and every
\* other client was skipped by its filter only, and has the event otherwise.
C8_FailureIsolated ==
  \A r \in Requests :
    (Done(r) /\ bc_calls[r] # <<>>)
    => /\ resp[r].status \in {200, 409}
       /\ Len(bc_visits[r]) = Len(bc_snapshot[r])
       /\ \A c \in bc_disconnected[r] :
            c \notin SeqToSet(active_connections) /\ c \notin DOMAIN client_filters
       /\ \A i \in DOMAIN bc_visits[r] :
            LET v == bc_visits[r][i] IN
              /\ v.client = bc_snapshot[r][i]
              /\ v.outcome = "failed" <=> v.client \in bc_disconnected[r]
              /\ v.outcome = "skipped" <=> SkipClient(v.filters, bc_msg[r].direction)
              /\ v.outcome # "failed" /\ ~SkipClient(v.filters, bc_msg[r].direction)
                   => HasMessage(v.client, bc_msg[r])

\* C8 witness: the send to the first client failed and the second client still
\* received the event
C8_Witness ==
  \E r \in Requests :
    /\ Done(r)
    /\ Len(bc_visits[r]) >= 2
    /\ bc_visits[r][1].outcome = "failed"
    /\ bc_visits[r][2].outcome = "sent"
    /\ HasMessage(bc_visits[r][2].client, bc_msg[r])
    /\ bc_visits[r][1].client \notin SeqToSet(active_connections)

\* C9: every connection holds the assignment_updated events in the order in
\* which the requests behind them committed.
C9_EventsInCommitOrder ==
  \A c \in Clients :
    \A i, j \in DOMAIN inbox[c] :
      ( /\ i < j
        /\ inbox[c][i].type = "assignment_updated"
        /\ inbox[c][j].type = "assignment_updated" )
      => CommitPosition(inbox[c][i].rid) < CommitPosition(inbox[c][j].rid)

\* C10: a committed request has exactly one UPDATE audit row, whose before
\* snapshot holds the version the commit replaced and whose after snapshot
\* holds that version + 1; a request that did not commit has no audit row and
\* made no assignment_updated broadcast; an accepted request made exactly one.
C10_AuditAndBroadcastPerAccepted ==
  \A r \in Requests :
    /\ Committed(r)
         => /\ Cardinality(AuditRowsOf(r)) = 1
            /\ \A i \in AuditRowsOf(r) :
                 /\ audit_logs[i].action = "UPDATE"
                 /\ audit_logs[i].before.version = stored_at_commit[r]
                 /\ audit_logs[i].after.version = stored_at_commit[r] + 1
    /\ ~Committed(r)
         => /\ AuditRowsOf(r) = {}
            /\ \A i \in DOMAIN bc_calls[r] : bc_calls[r][i] # "assignment_updated"
    /\ Accepted(r) => bc_calls[r] = <<"assignment_updated">>

\* C11: a finished create request that named a missing ramp, load or status
\* returned 404, committed nothing, wrote no audit row and made no broadcast
\* call; a finished create request whose references exist and that met no
\* store failure returned 201 with version 1, committed one CREATE audit row
\* and made exactly one assignment_created broadcast carrying the new id.
C11_CreateStoresAndBroadcasts ==
  \A r \in Requests :
    (op[r] = "create" /\ Done(r))
    => IF ReferenceError(inp[r]) # ""
       THEN /\ resp[r].status = 404
            /\ ~Committed(r)
            /\ AuditRowsOf(r) = {}
            /\ bc_calls[r] = <<>>
       ELSE resp[r].detail # "Internal Server Error"
            => /\ resp[r].status = 201
               /\ resp[r].version = InitialVersion
               /\ Committed(r)
               /\ \E i \in AuditRowsOf(r) :
                    /\ AuditRowsOf(r) = {i}
                    /\ audit_logs[i].action = "CREATE"
                    /\ audit_logs[i].entity_id = obj_id[r]
               /\ bc_calls[r] = <<"assignment_created">>
               /\ bc_msg[r].assignment_id = obj_id[r]

\* a step of the handler of request r
StepOf(r) ==
  \/ pc'[r] # pc[r]
  \/ bc_idx'[r] # bc_idx[r]
  \/ bc_cleanup'[r] # bc_cleanup[r]

\* what a delete request does to the store, and what it answers and
\* broadcasts when it read an existing row and met no store failure
DeleteEffect(r) ==
  /\ (pc[r] = "delete_commit" /\ pc'[r] = "delete_notify")
       => obj_id[r] \notin DOMAIN assignments'
  /\ (pc[r] # "done" /\ pc'[r] = "done" /\ before'[r] # NoRow
        /\ resp'[r].detail # "Internal Server Error")
       => /\ resp'[r].status = 204
          /\ r \in SeqToSet(commit_order')
          /\ bc_calls'[r] = <<"assignment_deleted">>
          /\ bc_msg'[r].assignment_id = obj_id[r]
          /\ bc_msg'[r].version = before[r].version

\* C12 as stated: a delete request that read an existing row removes it at its
\* commit, answers 204 after exactly one assignment_deleted broadcast carrying
\* the id, whatever the row's version, and no step of the request changes the
\* connection map or the filter map.
C12_DeleteLeavesRegistry ==
  [][ \A r \in Requests :
        (op'[r] = "delete" /\ StepOf(r))
        => /\ DeleteEffect(r)
           /\ active_connections' = active_connections
           /\ client_filters' = client_filters ]_vars

\* C12 amended: as above, except that the request's broadcast unregisters the
\* connections to which its send failed; every other connection stays
\* registered with the filter it had.
C12_DeleteLeavesOtherConnections ==
  [][ \A r \in Requests :
        (op'[r] = "delete" /\ StepOf(r))
        => /\ DeleteEffect(r)
           /\ active_connections' =
                SelectSeq(active_connections,
                          LAMBDA c : c \in SeqToSet(active_connections'))
           /\ \A c \in SeqToSet(active_connections) \ bc_disconnected[r] :
                c \in SeqToSet(active_connections')
           /\ \A c \in (DOMAIN client_filters) \ bc_disconnected[r] :
                c \in DOMAIN client_filters' /\ client_filters'[c] = client_filters[c]
           /\ DOMAIN client_filters' \subseteq DOMAIN client_filters ]_vars

\* C12 witness: an assignment at version 2 was deleted, the listening
\* connection has the assignment_deleted event
C12_Witness ==
  \E r \in Requests :
    /\ op[r] = "delete" /\ Done(r) /\ resp[r].status = 204
    /\ before[r].version = InitialVersion + 1
    /\ obj_id[r] \notin DOMAIN assignments
    /\ bc_msg[r].type = "assignment_deleted"
    /\ HasMessage(1, bc_msg[r])

\* C13: a request that failed with a store error has no audit row, made no
\* broadcast call, did not commit and holds no write lock; the step in which
\* it fails leaves the assignments table as it was.
C13_StoreFailureLeavesNoTrace ==
  [][ \A r \in Requests :
        (Done(r)' /\ resp'[r].status = 500)
        => /\ AuditRowsOf(r)' = {}
           /\ bc_calls'[r] = <<>>
           /\ ~Committed(r)'
           /\ store_writer' # r
           /\ ~Done(r) => assignments' = assignments ]_vars

\* C13 witness: an update failed at its commit, after the flush and the audit
\* row, and the stored version is still the one the request read
C13_Witness ==
  \E r \in Requests :
    /\ Done(r) /\ resp[r].status = 500
    /\ pending_audit[r] # NoAudit
    /\ obj[r].version = read_row[r].version + 1
    /\ StoredVersion = read_row[r].version
    /\ AuditRowsOf(r) = {}

\* request r retries the rejected request q: it was issued after q had been
\* answered 409, it carries the current_version of q's conflict payload, and
\* no write was committed between q's read and its own
RetryOf(r, q) ==
  /\ q # r
  /\ op[r] = "update"
  /\ q \in at_read[r].rejected
  /\ inp[r].version = resp[q].current_version
  /\ at_read[r].commits = at_read[q].commits

AwaitsEvent(r, c) ==
  /\ pc[r] = "broadcast"
  /\ lock_holder = ReqTask(r)
  /\ c \in SeqToSet(active_connections)
  /\ c \in DOMAIN client_filters
  /\ transport[c] = "open"
  /\ ~SkipClient(client_filters[c], bc_msg[r].direction)

\* C15: while request handlers keep running, every registered client that
\* matches the event of a running broadcast and keeps reading eventually has
\* the event, even when another peer has stopped reading.
C15_StalledSendDoesNotBlock ==
  \A r \in Requests, c \in Clients :
    AwaitsEvent(r, c) ~> (HasMessage(c, bc_msg[r]) \/ transport[c] # "open")

\* the steps in which the handler of a subscribe, of an unsubscribe, sets the
\* filter of client c, and the step in which a reply is delivered to c
SubscribeStep(c) == cpc[c] = "subscribing" /\ cpc'[c] = "reply"
UnsubscribeStep(c) == cpc[c] = "unsubscribing" /\ cpc'[c] = "reply"
DeliverStep(c) == cpc[c] = "reply" /\ cpc'[c] = "receive"

\* the filters value of a subscribe text: its dict, or {} when absent or null
RequestedFilter(m) == IF m.fkind = "dict" THEN m.filters ELSE EmptyFilter

\* C16: when a subscribe with filter F has been handled the filter map holds
\* exactly F for the client, the snapshot of get_client_info reports exactly F
\* for it while it is registered, and the subscribe_ack built and delivered
\* echoes F; when an unsubscribe has been handled both report the empty filter.
C16_SubscribeRoundTrip ==
  [][ \A c \in Clients :
        /\ SubscribeStep(c)
             => LET F == RequestedFilter(cur_msg[c]) IN
                  /\ c \in DOMAIN client_filters' /\ client_filters'[c] = F
                  /\ c \in SeqToSet(active_connections')
                       => ClientInfo(active_connections', client_filters')[c] = F
                  /\ reply'[c] = Reply("subscribe_ack", "Subscription updated", F)
        /\ (DeliverStep(c) /\ reply[c].type = "subscribe_ack")
             => inbox'[c][Len(inbox'[c])].filters = RequestedFilter(cur_msg[c])
        /\ UnsubscribeStep(c)
             => /\ c \in DOMAIN client_filters' /\ client_filters'[c] = EmptyFilter
                /\ c \in SeqToSet(active_connections')
                     => ClientInfo(active_connections', client_filters')[c] = EmptyFilter
    ]_vars

\* C16 witness: a subscribe with a direction filter was followed by a
\* subscribe with another key; the registry and the delivered subscribe_ack
\* hold the second filter only
C16_Witness ==
  \E c \in Clients :
    /\ prev_msg[c] = ClientText("object", "subscribe", "dict", DirectionFilter("IB"))
    /\ cur_msg[c] = ClientText("object", "subscribe", "dict", OtherFilter)
    /\ cpc[c] = "receive"
    /\ c \in SeqToSet(active_connections)
    /\ ClientInfo(active_connections, client_filters)[c] = OtherFilter
    /\ inbox[c][Len(inbox[c])] = ReplyMessage(Reply("subscribe_ack", "Subscription updated",
                                                    OtherFilter))

\* C17: every handled unsubscribe leaves the client with an empty filter,
\* leaves the connection map alone and returns unsubscribe_ack; when the
\* message before it was an unsubscribe too and the client still has its
\* entry, the registry is the same before and after.
C17_UnsubscribeIdempotent ==
  [][ \A c \in Clients :
        UnsubscribeStep(c)
        => /\ c \in DOMAIN client_filters' /\ client_filters'[c] = EmptyFilter
           /\ active_connections' = active_connections
           /\ reply'[c].type = "unsubscribe_ack"
           /\ (prev_msg[c].type = "unsubscribe" /\ c \in DOMAIN client_filters)
                => client_filters' = client_filters ]_vars

\* C17 witness: two unsubscribes in a row were handled and acknowledged, the
\* client is registered with the empty filter
C17_Witness ==
  \E c \in Clients :
    /\ prev_msg[c].type = "unsubscribe" /\ cur_msg[c].type = "unsubscribe"
    /\ cpc[c] = "receive"
    /\ reply[c].type = "unsubscribe_ack"
    /\ Len(inbox[c]) = 3
    /\ inbox[c][2].type = "unsubscribe_ack" /\ inbox[c][3].type = "unsubscribe_ack"
    /\ c \in SeqToSet(active_connections)
    /\ client_filters[c] = EmptyFilter

\* a call of disconnect(c) by the endpoint of c or by the clean-up of a
\* broadcast
DisconnectStep(c) ==
  \/ cpc[c] = "disconnecting" /\ cpc'[c] = "gone"
  \/ \E r \in Requests : c \in bc_cleanup[r] /\ c \notin bc_cleanup'[r]

\* C18: after disconnect(c) the client is in neither map and every other
\* entry is as it was; a call for an absent client leaves both maps as they
\* were; popping an id that is in neither map, registered once or never,
\* changes nothing.
C18_DisconnectIdempotent ==
  [][ /\ \A c \in Clients :
           DisconnectStep(c)
           => /\ c \notin SeqToSet(active_connections')
              /\ c \notin DOMAIN client_filters'
              /\ active_connections' = RemoveFromSeq(active_connections, c)
              /\ \A d \in (DOMAIN client_filters) \ {c} :
                   d \in DOMAIN client_filters' /\ client_filters'[d] = client_filters[d]
              /\ (c \notin SeqToSet(active_connections) /\ c \notin DOMAIN client_filters)
                   => /\ active_connections' = active_connections
                      /\ client_filters' = client_filters
      /\ \A id \in 1..(NumClients + 1) :
           /\ id \notin SeqToSet(active_connections)
                => Disconnected(active_connections, id) = active_connections
           /\ id \notin DOMAIN client_filters
                => DropKey(client_filters, id) = client_filters ]_vars

\* C18 witness: a client was unregistered by the clean-up of a broadcast and
\* by its own endpoint
C18_Witness ==
  \E c \in Clients, r \in Requests :
    /\ c \in bc_disconnected[r]
    /\ Done(r) /\ bc_cleanup[r] = {}
    /\ cpc[c] = "gone"
    /\ c \notin SeqToSet(active_connections)
    /\ c \notin DOMAIN client_filters

\* C19: whatever text was received, handle_client_message returned a reply,
\* and no exception left it.
C19_AlwaysReplies ==
  \A c \in Clients :
    (cur_msg[c] # NoText /\ cpc[c] \notin {"subscribing", "unsubscribing"})
    => reply[c].type \in {"subscribe_ack", "unsubscribe_ack", "pong", "error"}

\* texts that are not a well-formed control message, or carry no known type
Malformed(m) ==
  \/ m.json # "object"
  \/ m.type = "subscribe" /\ m.fkind = "string"
UnknownType(m) ==
  m.json = "object" /\ m.type \notin {"subscribe", "unsubscribe", "ping"}

\* C20: handling a malformed text or a text of unknown type produces an error
\* reply and changes neither map, and the endpoint goes on to send the reply;
\* once the reply is sent the endpoint receives again.
C20_ErrorReplyKeepsConnection ==
  [][ \A c \in Clients :
        /\ handled'[c] # handled[c]
             => ( (Malformed(cur_msg'[c]) \/ UnknownType(cur_msg'[c]))
                  => /\ reply'[c].type = "error"
                     /\ cpc'[c] = "reply"
                     /\ active_connections' = active_connections
                     /\ client_filters' = client_filters )
        /\ (cpc[c] = "reply" /\ cpc'[c] # "reply" /\ transport[c] = "open")
             => cpc'[c] = "receive" ]_vars

\* ------------------------------------------------------------------ C21
IsPing(m) == m.json = "object" /\ m.type = "ping"

\* C21: handling a ping returns a pong reply and changes nothing in the
\* registry.  The step that receives and dispatches a ping sets the reply to
\* pong and leaves the connection map and every filter as they were; the step
\* that sends the reply delivers the pong and leaves them as they were too.
C21_PingChangesNothing ==
  [][\A c \in Clients :
       /\ (handled'[c] # handled[c] /\ IsPing(cur_msg'[c]))
            => /\ reply'[c].type = "pong"
               /\ cpc'[c] = "reply"
               /\ active_connections' = active_connections
               /\ client_filters' = client_filters
       /\ (DeliverStep(c) /\ IsPing(cur_msg[c]))
            => /\ inbox'[c] = Append(inbox[c], ReplyMessage(Reply("pong", "", EmptyFilter)))
               /\ active_connections' = active_connections
               /\ client_filters' = client_filters]_vars

\* a pong was delivered to a connection that had subscribed with a filter
C21_Witness ==
  \E c \in Clients :
    /\ IsPing(cur_msg[c])
    /\ cpc[c] = "receive"
    /\ HasMessage(c, ReplyMessage(Reply("pong", "", EmptyFilter)))
    /\ c \in DOMAIN client_filters
    /\ client_filters[c] = DirectionFilter("IB")
    /\ \E d \in Clients \ {c} : d \in DOMAIN client_filters

\* ------------------------------------------------------------------ C22
RegisterStep(c) ==
  c \notin SeqToSet(active_connections) /\ c \in SeqToSet(active_connections')

AckFirstAndOnce(box) ==
  box # <<>> => /\ box[1] = ConnectionAck
                /\ \A i \in 2..Len(box) : box[i] # ConnectionAck

\* C22: registering a connection stores it with an empty filter and sends it
\* exactly one connection_ack, and nothing reaches the connection before its
\* connection_ack: the step that adds a client to the connection map sets its
\* filter to empty and, when the socket is open, leaves the connection_ack as
\* the only message delivered to it; ever after, the first message delivered
\* to a client is the connection_ack and no later message is one.
C22_AckFirstAndOnce ==
  [][\A c \in Clients :
       /\ RegisterStep(c)
            => /\ c \in DOMAIN client_filters'
               /\ client_filters'[c] = EmptyFilter
               /\ transport[c] = "open" => inbox'[c] = <<ConnectionAck>>
       /\ AckFirstAndOnce(inbox'[c])]_vars

\* a broadcast that was under way while the first connection registered
\* delivered its event to that connection after the connection_ack
C22_Witness ==
  \E r \in Requests :
    /\ token[1] = "valid"
    /\ Len(inbox[1]) = 2
    /\ inbox[1][1] = ConnectionAck
    /\ inbox[1][2] = bc_msg[r]
    /\ bc_msg[r].type = "assignment_deleted"
    /\ bc_snapshot[r] = Append([i \in 1..(NumClients - 1) |-> i + 1], 1)

\* ------------------------------------------------------------------ C23
InRegistry(c) == c \in SeqToSet(active_connections) \/ c \in DOMAIN client_filters

\* C23: a connection without a token or with an invalid token is closed and
\* is never in the registry; a connection in the registry has authenticated
\* and its endpoint has not finished; a connection whose receive loop has
\* ended and whose endpoint has unregistered it is in neither map again.
C23_OnlyAuthenticatedRegistered ==
  \A c \in Clients :
    /\ token[c] \in {"missing", "invalid"}
         => /\ cpc[c] = "rejected"
            /\ transport[c] = "closed"
            /\ inbox[c] = <<>>
    /\ InRegistry(c)
         => /\ token[c] = "valid"
            /\ cpc[c] \notin {"idle", "rejected", "gone"}
    /\ cpc[c] = "gone" => ~InRegistry(c)

\* one connection was refused for its invalid token; another, registered and
\* acknowledged, has ended its receive loop and is unregistered
C23_Witness ==
  /\ token[1] = "invalid"
  /\ cpc[1] = "rejected"
  /\ \E c \in Clients :
       /\ token[c] = "valid"
       /\ cpc[c] = "gone"
       /\ HasMessage(c, ConnectionAck)
       /\ ~InRegistry(c)

\* ------------------------------------------------------------------ C24
\* C24: a ramp update is accepted only when the version the caller works from
\* equals the stored version, and of two updates of the same ramp made from
\* the same version only one is accepted.
C24_RampVersionGuard ==
  \A r \in Requests :
    (op[r] = "update_ramp" /\ Accepted(r))
      => /\ stored_at_commit[r] = read_row[r].version
         /\ \A q \in Requests \ {r} :
              (op[q] = "update_ramp" /\ Accepted(q) /\ obj_id[q] = obj_id[r])
                => read_row[q].version # read_row[r].version

\* ------------------------------------------------------------------ C25
\* a broadcast has visited a client and has not left its loop
Iterating(r) == pc[r] = "broadcast" /\ bc_idx[r] > 0

RegistryChanges ==
  active_connections' # active_connections \/ client_filters' # client_filters

\* C25: every change of the connection map or of the filter map is made by
\* the task that holds the registry lock, and none is made while a broadcast
\* is between the first and the last client it visits.
C25_MutationsUnderLock ==
  [][RegistryChanges
       => /\ \/ \E c \in Clients : lock_holder = WsTask(c) /\ cpc'[c] # cpc[c]
             \/ \E r \in Requests : lock_holder = ReqTask(r) /\ bc_cleanup'[r] # bc_cleanup[r]
          /\ \A r \in Requests : ~Iterating(r)]_vars

\* a broadcast is between the two clients it visits while the subscribe of
\* one of them waits for the lock
C25_Witness ==
  \E r \in Requests, c \in Clients :
    /\ Iterating(r)
    /\ lock_holder = ReqTask(r)
    /\ bc_idx[r] = 1
    /\ Len(active_connections) = 2
    /\ cpc[c] = "subscribing"
    /\ WsTask(c) \in SeqToSet(lock_queue)

\* ------------------------------------------------------------------ C26
\* C26: in every reachable state the connection map and the filter map have
\* the same client ids; no filter is stored for a client that is not
\* registered.
C26_SameClientIds == SeqToSet(active_connections) = DOMAIN client_filters

\* ------------------------------------------------------------------ C27
\* a step of handle_client_message for client c
HandleStep(c) == handled'[c] # handled[c] \/ SubscribeStep(c) \/ UnsubscribeStep(c)

\* C27: a step of the handling of a control message of client c leaves the
\* connection map and every other client's filter entry as they were; a
\* client is registered with an empty filter, and its filter stops being
\* empty only by a subscribe of that client.
C27_OwnFilterOnly ==
  [][\A c \in Clients :
       /\ HandleStep(c)
            => /\ active_connections' = active_connections
               /\ \A d \in Clients \ {c} :
                    /\ d \in DOMAIN client_filters' <=> d \in DOMAIN client_filters
                    /\ d \in DOMAIN client_filters => client_filters'[d] = client_filters[d]
       /\ RegisterStep(c) => client_filters'[c] = EmptyFilter
       /\ (/\ c \in DOMAIN client_filters
           /\ c \in DOMAIN client_filters'
           /\ client_filters[c] = EmptyFilter
           /\ client_filters'[c] # EmptyFilter)
            => /\ SubscribeStep(c)
               /\ cur_msg[c].type = "subscribe"
               /\ client_filters'[c] = cur_msg[c].filters]_vars

\* the first connection registered, then subscribed with a direction filter,
\* while another connection is registered without a filter
C27_Witness ==
  \E d \in Clients \ {1} :
    /\ token[1] = "valid"
    /\ 1 \in SeqToSet(active_connections)
    /\ client_filters[1] = DirectionFilter("OB")
    /\ cur_msg[1].type = "subscribe"
    /\ d \in SeqToSet(active_connections)
    /\ client_filters[d] = EmptyFilter


\* task t's connection attempt ends in this step
AttemptEnds(t) == rpc[t] = "attempt" /\ rpc'[t] # "attempt"

\* the attempt that ends in this step made a connection
AttemptMade(t) == AttemptEnds(t) /\ task' # task

\* C28: connect with auto-reconnect is bounded by max_retries: retry_count
\* never exceeds max_retries, a call makes no more than max_retries attempts
\* in a row without a success, an attempt starts only while retry_count is
\* below max_retries, a successful attempt resets retry_count to 0, and the
\* failure that brings the count to max_retries ends the call: it makes no
\* further attempt, raises, and the status is max_retries_reached.
C28_RetriesBounded ==
  [][/\ retry_count' <= MaxRetries
     /\ \A t \in Tasks :
          /\ fails'[t] <= MaxRetries
          /\ (rpc'[t] = "attempt" /\ rpc[t] # "attempt") => retry_count' < MaxRetries
          /\ AttemptMade(t) => retry_count' = 0 /\ running' /\ ~reconnecting'
          /\ (AttemptEnds(t) /\ ~AttemptMade(t)) =>
               /\ retry_count' = retry_count + 1
               /\ IF retry_count' = MaxRetries
                  THEN /\ rpc'[t] = "none"
                       /\ conn_status' = "max_retries_reached"
                       /\ ~reconnecting'
                       /\ t = 0 => call_result' = "raised"
                  ELSE rpc'[t] = "sleep"]_vars

\* a call of connect() returns without raising in this step
ConnectReturns ==
  /\ call_result' = "returned"
  /\ call_result = "pending" \/ calls' # calls

\* C29: whenever connect() with auto-reconnect returns without raising, the
\* client is connected (running is true and a listener task exists) and
\* reconnecting is false, for every call, a call made after an earlier call
\* exhausted max_retries included.
C29_ReturnMeansConnected ==
  [][ConnectReturns => running' /\ task' # 0 /\ ~reconnecting']_vars

\* a listener starts a connection attempt in this step
ListenerAttempts(n) == rpc'[n] = "attempt" /\ rpc[n] # "attempt"

\* C30: after disconnect() is called no listener makes a reconnection
\* attempt, and running is false in every state after disconnect() has
\* returned, until connect() is called again.
C30_NoReconnectAfterDisconnect ==
  [][/\ manual => \A n \in Listeners : ~ListenerAttempts(n)
     /\ disconnected' => ~running']_vars

====
